---- MODULE Spec2Model ----
(***************************************************************************)
(* State-machine model of APCMiniMK2Manager                               *)
(* (src/src/midi/apcmini_mk2/APCMiniMK2Manager.ts) and of the helpers it  *)
(* uses from src/src/midi/utils.ts.                                       *)
(*                                                                         *)
(* Arrays are functions over 0-based index ranges, as in the source.      *)
(* Fader levels are exact rationals with denominator UnitLevel, so that   *)
(* b/127 and the keyboard steps 0.05 and 0.01 are all representable.      *)
(* Timestamps are integer milliseconds.                                   *)
(***************************************************************************)
EXTENDS Integers, Sequences, FiniteSets, TLC

VARIABLES
    gridRadioState,             \* [scene][column] -> GridParameterState
    currentSceneIndex,
    sideButtonToggleState,
    randomSceneMode,
    faderValues,
    faderValuesPrev,
    faderButtonToggleState,
    faderButtonMode,
    faderRandomStates,
    keyboardFallbackActive,
    keyboardFallbackNoticeShown,
    clock,                      \* what getCurrentTimestamp() returns now
    ledOut,                     \* messages passed to send() by the last update
    lastOp,                     \* the last call made on the manager
    steps,                      \* number of calls and clock ticks so far
    limit,                      \* [steps, ticks]: how far behaviours are explored
    midi,                       \* MIDIManager: construction stage, Web MIDI
                                \* support, pending initialize(), last report
    controller,                 \* a RandomFaderController and its last result
    virtual                     \* APCMiniMK2VirtualInput and what it emitted

progVars == <<gridRadioState, currentSceneIndex, sideButtonToggleState,
              randomSceneMode, faderValues, faderValuesPrev,
              faderButtonToggleState, faderButtonMode, faderRandomStates,
              keyboardFallbackActive, keyboardFallbackNoticeShown, ledOut>>

vars == <<gridRadioState, currentSceneIndex, sideButtonToggleState,
          randomSceneMode, faderValues, faderValuesPrev,
          faderButtonToggleState, faderButtonMode, faderRandomStates,
          keyboardFallbackActive, keyboardFallbackNoticeShown, clock, ledOut,
          lastOp, steps, limit, midi, controller, virtual>>

\* The objects beside the manager
sideVars == <<midi, controller, virtual>>

----------------------------------------------------------------------------
(* Program constants *)

NOTE_ON == 144
NOTE_OFF == 128
CONTROL_CHANGE == 176
OUTPUT_NOTE_ON == 150

GRID_START == 0
GRID_END == 63
FADER_BUTTONS_START == 100
FADER_BUTTONS_END == 107
SIDE_BUTTONS_START == 112
SIDE_BUTTONS_END == 119
FADERS_START == 48
FADERS_END == 56
FADER_BUTTON_8 == 122
SHIFT == 122

GRID_ROWS == 8
GRID_COLS == 8
NUM_FADERS == 9

LED_OFF == 0
LED_RED == 3
LED_BRIGHT_WHITE == 127
SIDE_ACTIVE_COLORS == <<5, 60, 56, 53, 37, 32, 21, 13>>
RANDOM_ON_COLOR == 45
DEFAULT_ACTIVE_COLOR == 41

KEYBOARD_FADER_KEYS == <<"q", "w", "e", "r", "t", "y", "u", "i", "o">>
KEYBOARD_GRID_KEYS == <<"z", "x", "c", "v", "b", "n", "m", ",">>
KEYBOARD_SCENE_FUNCTION_KEYS == <<"F1", "F2", "F3", "F4", "F5", "F6", "F7", "F8">>
KEYBOARD_SCENE_RANDOM_FUNCTION_KEY == "F9"
KEYBOARD_SCENE_SELECT_KEYS == <<"a", "s", "d", "f", "g", "h", "j", "k">>
KEYBOARD_SCENE_RANDOM_KEY == "l"
KEYBOARD_SCENE_PREV_KEY == "["
KEYBOARD_SCENE_NEXT_KEY == "]"

UnitLevel == 127 * 100                  \* the level 1.0
FALLBACK_FADER_STEP == 5 * 127          \* 0.05
FALLBACK_FINE_MODIFIER == 127           \* 0.01

RANDOM_LOW_MIN == 1200
RANDOM_LOW_MAX == 4000
RANDOM_HIGH_MIN == 80
RANDOM_HIGH_MAX == 220

DEFAULT_MAX_OPTIONS == 1

Scenes == 0 .. (GRID_COLS - 1)
Columns == 0 .. (GRID_COLS - 1)
Faders == 0 .. (NUM_FADERS - 1)

----------------------------------------------------------------------------
(* Bounds of the model *)

MaxSteps == 4           \* calls and clock ticks in one behaviour
MaxScene == 1           \* valid scene indices 0..MaxScene are used as inputs
MaxTempo == 0           \* tempo indices 0..MaxTempo (and 10) are used
MaxColumn == 1          \* grid presses address columns 0..MaxColumn
MaxTicks == 1           \* times the clock advances in one behaviour
MaxFaderSteps == 5      \* calls and clock ticks in a behaviour of FaderSpec
MaxFaderTicks == 2      \* times the clock advances in such a behaviour
MaxDecoderSteps == 3    \* calls in a behaviour of DecoderSpec
MaxControllerSteps == 4 \* calls and clock ticks in a behaviour of ControllerSpec
MaxLedSteps == 3        \* calls in a behaviour of LedSpec
MaxConstructionSteps == 5   \* steps in a behaviour of ConstructionSpec
MaxSurfaceSteps == 2    \* events in a behaviour of SurfaceSpec
MaxInterfaceSteps == 2  \* calls in a behaviour of InterfaceSpec
MaxSceneSteps == 3      \* calls in a behaviour of SceneSpec
MaxEquivalenceSteps == 5    \* events and clock ticks in a behaviour of
                            \* EquivalenceSpec

----------------------------------------------------------------------------
(* src/src/midi/utils.ts *)

Min(a, b) == IF a < b THEN a ELSE b
Max(a, b) == IF a > b THEN a ELSE b

ClampUnitRange(value) ==
    IF value < 0 THEN 0 ELSE IF value > UnitLevel THEN UnitLevel ELSE value

ClampGridSelection(value, maxOptions) ==
    LET maxIndex == Max(0, Min(7, maxOptions - 1))
    IN  IF value < 0 THEN 0 ELSE IF value > maxIndex THEN maxIndex ELSE value

\* x - floor(x) for x = sin(seed * 99999 + 1) * 10000, in millionths (rounded
\* down), tabulated for seed = 0 .. 25.  For every tabulated seed and every
\* m in 0..8, floor(r * m) = (millionths * m) \div 1000000.
PseudoRandomTable ==
    <<709848, 487979, 741518, 167396, 330127, 219445, 500005, 155394, 839525,
      507028, 368034, 390168, 999978, 371843, 648089, 802757, 569686, 378563,
      751857, 363021, 335712, 696556, 151428, 262786, 499097, 332134>>

PseudoRandomFromSeed(seed) == PseudoRandomTable[seed + 1]

\* Math.floor(r * m) for r in millionths
FloorTimes(r, m) == (r * m) \div 1000000

\* randomDurationInRange: min + Math.random() * (max - min), a value of
\* [min, max); the model draws one of the two ends of that interval.
RandomDurationInRange(min, max) ==
    IF min >= max THEN {min} ELSE {min, max - 1}

----------------------------------------------------------------------------
(* Initial state: the constructor *)

InitialCell ==
    [selectedRow |-> 0, maxOptions |-> 8, isRandom |-> FALSE, randomValue |-> 0]

InitialRandomState ==
    [isActive |-> FALSE, currentValue |-> 0, nextSwitchTime |-> 0,
     isHighPhase |-> FALSE]

NoOp ==
    [op |-> "constructor", a |-> <<>>, key |-> "", again |-> FALSE,
     raised |-> FALSE]

ConstructorBody ==
    /\ gridRadioState = [s \in Scenes |-> [c \in Columns |-> InitialCell]]
    /\ currentSceneIndex = 0
    /\ sideButtonToggleState = [i \in Scenes |-> IF i = 0 THEN 1 ELSE 0]
    /\ randomSceneMode = FALSE
    /\ faderValues = [i \in Faders |-> 0]
    /\ faderValuesPrev = [i \in Faders |-> UnitLevel]
    /\ faderButtonToggleState = [i \in Faders |-> 0]
    /\ faderButtonMode = "random"
    /\ faderRandomStates = [i \in Faders |-> InitialRandomState]
    /\ keyboardFallbackActive = FALSE
    /\ keyboardFallbackNoticeShown = FALSE
    /\ clock = 0
    /\ ledOut = <<>>
    /\ lastOp = NoOp
    /\ steps = 0

\* new RandomFaderController(9, lowRange, highRange)
InitialController ==
    [states |-> [i \in Faders |-> InitialRandomState], returned |-> 0,
     targetValues |-> [i \in Faders |-> 0]]

\* new APCMiniMK2VirtualInput(surface) with the emitter set
InitialVirtualInput == [active |-> FALSE, emitted |-> <<>>]

\* The manager after its constructor has returned, with initialize() of the
\* base class waiting for access to the transport, beside a fresh
\* controller and a fresh virtual input.
Constructed ==
    /\ ConstructorBody
    /\ midi = [stage |-> "constructed", supported |-> TRUE, awaiting |-> TRUE,
               reported |-> "none"]
    /\ controller = InitialController
    /\ virtual = InitialVirtualInput

Init == Constructed /\ limit = [steps |-> MaxSteps, ticks |-> MaxTicks]

\* The same start for the behaviours that exercise the fader channels and
\* the message decoder.
FaderInit ==
    Constructed /\ limit = [steps |-> MaxFaderSteps, ticks |-> MaxFaderTicks]

DecoderInit ==
    Constructed /\ limit = [steps |-> MaxDecoderSteps, ticks |-> MaxTicks]

----------------------------------------------------------------------------
(* The manager's fields as one record, so that a method is an operator from *)
(* the fields before the call to the fields after it (or, where the method  *)
(* draws a random number, to the set of possible results).                  *)

Cur ==
    [gridRadioState |-> gridRadioState,
     currentSceneIndex |-> currentSceneIndex,
     sideButtonToggleState |-> sideButtonToggleState,
     randomSceneMode |-> randomSceneMode,
     faderValues |-> faderValues,
     faderValuesPrev |-> faderValuesPrev,
     faderButtonToggleState |-> faderButtonToggleState,
     faderButtonMode |-> faderButtonMode,
     faderRandomStates |-> faderRandomStates,
     keyboardFallbackActive |-> keyboardFallbackActive,
     keyboardFallbackNoticeShown |-> keyboardFallbackNoticeShown,
     ledOut |-> ledOut]

Install(st) ==
    /\ gridRadioState' = st.gridRadioState
    /\ currentSceneIndex' = st.currentSceneIndex
    /\ sideButtonToggleState' = st.sideButtonToggleState
    /\ randomSceneMode' = st.randomSceneMode
    /\ faderValues' = st.faderValues
    /\ faderValuesPrev' = st.faderValuesPrev
    /\ faderButtonToggleState' = st.faderButtonToggleState
    /\ faderButtonMode' = st.faderButtonMode
    /\ faderRandomStates' = st.faderRandomStates
    /\ keyboardFallbackActive' = st.keyboardFallbackActive
    /\ keyboardFallbackNoticeShown' = st.keyboardFallbackNoticeShown
    /\ ledOut' = st.ledOut

----------------------------------------------------------------------------
(* Scene selection and parameter reads *)

\* Mutant of SelectScene: the index is not checked.
SelectSceneUnchecked(st, index) ==
    [st EXCEPT !.currentSceneIndex = index,
               !.sideButtonToggleState =
                    [i \in Scenes |-> IF i = index THEN 1 ELSE 0]]

SelectScene(st, index) ==
    IF index < 0 \/ index >= GRID_COLS
    THEN st
    ELSE [st EXCEPT !.currentSceneIndex = index,
                    !.sideButtonToggleState =
                        [i \in Scenes |-> IF i = index THEN 1 ELSE 0]]

EffectiveValue(param) ==
    IF param.isRandom THEN param.randomValue ELSE param.selectedRow

GetParamValue(st, columnIndex, sceneIndex) ==
    EffectiveValue(st.gridRadioState[sceneIndex][columnIndex])

GetParamValues(st, sceneIndex) ==
    [col \in Columns |-> EffectiveValue(st.gridRadioState[sceneIndex][col])]

----------------------------------------------------------------------------
(* Reconfiguration of maxOptions *)

ResetAllMaxOptions(st) ==
    [st EXCEPT !.gridRadioState =
        [scene \in Scenes |-> [col \in Columns |->
            [@[scene][col] EXCEPT !.maxOptions = DEFAULT_MAX_OPTIONS,
                                  !.selectedRow = 0,
                                  !.isRandom = FALSE]]]]

ClampMaxOptions(requested) == Max(1, Min(8, requested))

SetMaxOptionsCell(param, requested) ==
    LET max == ClampMaxOptions(requested)
    IN  [param EXCEPT !.maxOptions = max,
                      !.selectedRow = IF @ >= max THEN max - 1 ELSE @]

\* Mutant of RejectsMaxOptions: only a short options array is rejected.
RejectsShortOptionsOnly(sceneIndex, optionsArray) ==
    sceneIndex < 0 \/ sceneIndex >= GRID_COLS \/ Len(optionsArray) < GRID_COLS

RejectsMaxOptions(sceneIndex, optionsArray) ==
    sceneIndex < 0 \/ sceneIndex >= GRID_COLS \/ Len(optionsArray) # GRID_COLS

SetMaxOptionsForScene(st, sceneIndex, optionsArray) ==
    IF RejectsMaxOptions(sceneIndex, optionsArray)
    THEN st
    ELSE [st EXCEPT !.gridRadioState[sceneIndex] =
            [col \in Columns |-> SetMaxOptionsCell(@[col], optionsArray[col + 1])]]

----------------------------------------------------------------------------
(* Random faders *)

\* Mutant of RandomLowDuration: a duration beyond the low range.
RandomLowDurationBeyondRange == {RANDOM_LOW_MAX + 1}

RandomLowDuration == RandomDurationInRange(RANDOM_LOW_MIN, RANDOM_LOW_MAX)
RandomHighDuration == RandomDurationInRange(RANDOM_HIGH_MIN, RANDOM_HIGH_MAX)

ActivateRandomFaderAfresh(state, now) ==
    {[isActive |-> TRUE, isHighPhase |-> FALSE, currentValue |-> 0,
      nextSwitchTime |-> now + d] : d \in RandomLowDuration}

\* activateRandomFader: the possible states of the channel afterwards
ActivateRandomFader(state, now) ==
    IF state.isActive
    THEN {state}
    ELSE {[isActive |-> TRUE, isHighPhase |-> FALSE, currentValue |-> 0,
           nextSwitchTime |-> now + d] : d \in RandomLowDuration}

\* Mutant of DeactivateRandomFader: only the active flag is cleared.
DeactivateRandomFaderKeepingSchedule(state) ==
    IF ~state.isActive /\ state.currentValue = 0
    THEN state
    ELSE [state EXCEPT !.isActive = FALSE]

\* Mutant of DeactivateRandomFader: the channel is left as it is.
DeactivateRandomFaderKeepingState(state) == state

DeactivateRandomFader(state) ==
    IF ~state.isActive /\ state.currentValue = 0
    THEN state
    ELSE [isActive |-> FALSE, isHighPhase |-> FALSE, currentValue |-> 0,
          nextSwitchTime |-> 0]

\* The body shared by updateFaderValue and the loop of setFaderButtonMode.
RecomputeFader(st, index, now) ==
    IF st.faderButtonMode = "mute"
    THEN {[st EXCEPT !.faderRandomStates[index] = DeactivateRandomFader(@),
                     !.faderValues[index] =
                        IF st.faderButtonToggleState[index] # 0
                        THEN 0 ELSE st.faderValuesPrev[index]]}
    ELSE IF st.faderButtonToggleState[index] # 0
    THEN {[st EXCEPT !.faderRandomStates[index] = state,
                     !.faderValues[index] = state.currentValue * UnitLevel] :
            state \in ActivateRandomFader(st.faderRandomStates[index], now)}
    ELSE {[st EXCEPT !.faderRandomStates[index] = DeactivateRandomFader(@),
                     !.faderValues[index] = st.faderValuesPrev[index]]}

UpdateFaderValuePassingLevel(st, index, now) ==
    {[st EXCEPT !.faderValues[index] = st.faderValuesPrev[index]]}

UpdateFaderValue(st, index, now) == RecomputeFader(st, index, now)

RECURSIVE RecomputeFrom(_, _, _)
RecomputeFrom(sts, i, now) ==
    IF i >= NUM_FADERS
    THEN sts
    ELSE RecomputeFrom(UNION {RecomputeFader(s, i, now) : s \in sts}, i + 1, now)

SetFaderButtonModeWithoutSync(st, mode, now) ==
    {[st EXCEPT !.faderButtonMode = mode]}

SetFaderButtonMode(st, mode, now) ==
    IF st.faderButtonMode = mode
    THEN {st}
    ELSE RecomputeFrom({[st EXCEPT !.faderButtonMode = mode]}, 0, now)

\* One iteration of the loop of processRandomFaders.
ScheduleIfUnset(state, now) ==
    IF state.nextSwitchTime = 0
    THEN {[state EXCEPT !.nextSwitchTime = now + d] :
            d \in IF state.isHighPhase THEN RandomHighDuration
                                       ELSE RandomLowDuration}
    ELSE {state}

SwitchWhetherDueOrNot(state, now) ==
    {[state EXCEPT !.isHighPhase = ~@, !.currentValue = 1 - @,
                   !.nextSwitchTime = now + RANDOM_HIGH_MIN]}

SwitchIfDue(state, now) ==
    IF now >= state.nextSwitchTime
    THEN IF state.isHighPhase
         THEN {[state EXCEPT !.isHighPhase = FALSE, !.currentValue = 0,
                             !.nextSwitchTime = now + d] : d \in RandomLowDuration}
         ELSE {[state EXCEPT !.isHighPhase = TRUE, !.currentValue = 1,
                             !.nextSwitchTime = now + d] : d \in RandomHighDuration}
    ELSE {state}

ProcessRandomFaderActiveOrNot(st, i, now) ==
    {[st EXCEPT !.faderRandomStates[i] = s2,
                !.faderValues[i] = s2.currentValue * UnitLevel] :
        s2 \in UNION {SwitchIfDue(s1, now) :
                        s1 \in ScheduleIfUnset(st.faderRandomStates[i], now)}}

ProcessRandomFader(st, i, now) ==
    IF ~st.faderRandomStates[i].isActive
    THEN {st}
    ELSE {[st EXCEPT !.faderRandomStates[i] = s2,
                     !.faderValues[i] = s2.currentValue * UnitLevel] :
            s2 \in UNION {SwitchIfDue(s1, now) :
                            s1 \in ScheduleIfUnset(st.faderRandomStates[i], now)}}

RECURSIVE ProcessFrom(_, _, _)
ProcessFrom(sts, i, now) ==
    IF i >= NUM_FADERS
    THEN sts
    ELSE ProcessFrom(UNION {ProcessRandomFader(s, i, now) : s \in sts}, i + 1, now)

ProcessRandomFaders(st, now) ==
    IF st.faderButtonMode # "random" THEN {st} ELSE ProcessFrom({st}, 0, now)

----------------------------------------------------------------------------
(* RandomFaderController (src/src/midi/apcmini_mk2/RandomFaderController.ts). *)
(* A controller is the record [states, returned, targetValues]: its states   *)
(* array, the value its last recomputeValue returned and the array the       *)
(* caller passes as targetValues.  Its activate, deactivate and duration     *)
(* methods have the bodies of the manager's activateRandomFader,             *)
(* deactivateRandomFader and getRandom*Duration, which model them here.      *)

\* Mutant of RecomputeValue: the level is passed through.
RecomputeValueReturningLevel(ctl, index, mode, toggleState, prevValue, now) ==
    {[ctl EXCEPT !.returned = prevValue]}

RecomputeValue(ctl, index, mode, toggleState, prevValue, now) ==
    IF index < 0 \/ index >= NUM_FADERS
    THEN {[ctl EXCEPT !.returned = prevValue]}
    ELSE IF mode = "mute"
    THEN {[ctl EXCEPT !.states[index] = DeactivateRandomFader(@),
                      !.returned = IF toggleState # 0 THEN 0 ELSE prevValue]}
    ELSE IF toggleState # 0
    THEN {[ctl EXCEPT !.states[index] = state,
                      !.returned = state.currentValue * UnitLevel] :
            state \in ActivateRandomFader(ctl.states[index], now)}
    ELSE {[ctl EXCEPT !.states[index] = DeactivateRandomFader(@),
                      !.returned = prevValue]}

RECURSIVE SyncFrom(_, _, _, _, _, _)
SyncFrom(ctls, i, mode, toggleStates, prevValues, now) ==
    IF i >= NUM_FADERS
    THEN ctls
    ELSE SyncFrom({[c2 EXCEPT !.targetValues[i] = c2.returned] :
                      c2 \in UNION {RecomputeValue(c1, i, mode, toggleStates[i],
                                                   prevValues[i], now) :
                                      c1 \in ctls}},
                  i + 1, mode, toggleStates, prevValues, now)

\* Mutant of SyncForMode: the states are synchronised, the outputs are not
\* written.
SyncForModeWithoutOutputs(ctl, mode, toggleStates, prevValues, now) ==
    {[c2 EXCEPT !.targetValues = ctl.targetValues] :
        c2 \in SyncFrom({ctl}, 0, mode, toggleStates, prevValues, now)}

SyncForMode(ctl, mode, toggleStates, prevValues, now) ==
    SyncFrom({ctl}, 0, mode, toggleStates, prevValues, now)

RECURSIVE ControllerProcessFrom(_, _, _)
ControllerProcessFrom(ctls, i, now) ==
    IF i >= NUM_FADERS
    THEN ctls
    ELSE ControllerProcessFrom(
            UNION {IF ~c.states[i].isActive
                   THEN {c}
                   ELSE {[c EXCEPT !.states[i] = s2,
                                   !.targetValues[i] = s2.currentValue * UnitLevel] :
                           s2 \in UNION {SwitchIfDue(s1, now) :
                                           s1 \in ScheduleIfUnset(c.states[i], now)}} :
                   c \in ctls},
            i + 1, now)

ControllerProcess(ctl, now, mode) ==
    IF mode # "random" THEN {ctl} ELSE ControllerProcessFrom({ctl}, 0, now)

----------------------------------------------------------------------------
(* Inbound MIDI messages *)

IsShiftToggle(statusByte, noteNumber) ==
    (statusByte = NOTE_ON \/ statusByte = NOTE_OFF) /\ noteNumber = SHIFT

HandleShiftToggle(st, statusByte, velocity) ==
    IF statusByte = NOTE_ON /\ velocity > 0
    THEN [st EXCEPT !.randomSceneMode = ~@]
    ELSE st

IsFaderButton(statusByte, noteNumber) ==
    statusByte = NOTE_ON /\
        \/ (noteNumber >= FADER_BUTTONS_START /\ noteNumber <= FADER_BUTTONS_END)
        \/ noteNumber = FADER_BUTTON_8

FaderButtonIndex(noteNumber) ==
    IF noteNumber >= FADER_BUTTONS_START
    THEN noteNumber - FADER_BUTTONS_START
    ELSE 8

\* An assignment array[index] = value: an index outside the array creates
\* the entry.
ArrayWrite(array, index, value) ==
    [i \in DOMAIN array \cup {index} |-> IF i = index THEN value ELSE array[i]]

\* At an index outside the array the toggle entry is created as
\* 1 - undefined, which is NaN, and updateFaderValue then raises in
\* deactivateRandomFader, whose state is undefined: the write stays.
HandleFaderButton(st, noteNumber, velocity, now) ==
    IF velocity > 0
    THEN LET index == FaderButtonIndex(noteNumber)
         IN  IF index \in DOMAIN st.faderButtonToggleState
             THEN UpdateFaderValue(
                    [st EXCEPT !.faderButtonToggleState[index] = 1 - @], index, now)
             ELSE {[st EXCEPT !.faderButtonToggleState =
                                ArrayWrite(@, index, "NaN")]}
    ELSE {st}

IsSideButton(statusByte, noteNumber) ==
    statusByte = NOTE_ON /\ noteNumber >= SIDE_BUTTONS_START
                         /\ noteNumber <= SIDE_BUTTONS_END

HandleSideButtonOnRelease(st, noteNumber, velocity) ==
    SelectScene(st, noteNumber - SIDE_BUTTONS_START)

HandleSideButton(st, noteNumber, velocity) ==
    IF velocity > 0
    THEN SelectScene(st, noteNumber - SIDE_BUTTONS_START)
    ELSE st

IsGridPadAnyStatus(statusByte, noteNumber) ==
    noteNumber >= GRID_START /\ noteNumber <= GRID_END

IsGridPad(statusByte, noteNumber) ==
    statusByte = NOTE_ON /\ noteNumber >= GRID_START /\ noteNumber <= GRID_END

GridColumn(noteNumber) == (noteNumber - GRID_START) % GRID_COLS
\* Mutant of GridRow: rows counted from the top.
GridRowFromTop(noteNumber) == (noteNumber - GRID_START) \div GRID_COLS

GridRow(noteNumber) == GRID_ROWS - 1 - ((noteNumber - GRID_START) \div GRID_COLS)

\* Mutant of GridPadCell: turning random off keeps the previous selection,
\* clamped as the keyboard fallback clamps it.
GridPadCellKeepingSelection(param, rowIndex) ==
    IF rowIndex = 7
    THEN IF ~param.isRandom
         THEN [param EXCEPT !.isRandom = TRUE]
         ELSE [param EXCEPT !.isRandom = FALSE,
                            !.selectedRow =
                                ClampGridSelection(param.selectedRow, param.maxOptions)]
    ELSE IF rowIndex < param.maxOptions
    THEN [param EXCEPT !.selectedRow = rowIndex, !.isRandom = FALSE]
    ELSE param

\* Mutant of GridPadCell: turning random off selects maxOptions - 1 even
\* when that is the toggle row.
GridPadCellTopOfAllRows(param, rowIndex) ==
    IF rowIndex = 7
    THEN IF ~param.isRandom
         THEN [param EXCEPT !.isRandom = TRUE]
         ELSE [param EXCEPT !.isRandom = FALSE,
                            !.selectedRow = IF param.maxOptions > 0
                                            THEN Min(param.maxOptions - 1, 7)
                                            ELSE 0]
    ELSE IF rowIndex < param.maxOptions
    THEN [param EXCEPT !.selectedRow = rowIndex, !.isRandom = FALSE]
    ELSE param

\* The cell after a press of row rowIndex of its column.
GridPadCell(param, rowIndex) ==
    IF rowIndex = 7
    THEN IF ~param.isRandom
         THEN [param EXCEPT !.isRandom = TRUE]
         ELSE [param EXCEPT !.isRandom = FALSE,
                            !.selectedRow = IF param.maxOptions > 0
                                            THEN Min(param.maxOptions - 1, 6)
                                            ELSE 0]
    ELSE IF rowIndex < param.maxOptions
    THEN [param EXCEPT !.selectedRow = rowIndex, !.isRandom = FALSE]
    ELSE param

\* Mutant of HandleGridPad: the press acts on scene 0, whichever is current.
HandleGridPadOnFirstScene(st, noteNumber, velocity) ==
    IF velocity <= 0
    THEN st
    ELSE [st EXCEPT !.gridRadioState[0][GridColumn(noteNumber)] =
                GridPadCell(@, GridRow(noteNumber))]

HandleGridPad(st, noteNumber, velocity) ==
    IF velocity <= 0
    THEN st
    ELSE [st EXCEPT !.gridRadioState[st.currentSceneIndex][GridColumn(noteNumber)] =
                GridPadCell(@, GridRow(noteNumber))]

IsFaderControlChange(statusByte, noteNumber) ==
    statusByte = CONTROL_CHANGE /\ noteNumber >= FADERS_START
                                /\ noteNumber <= FADERS_END

\* Mutant of HandleFaderControlChange: the level of a toggled channel is
\* dropped.
HandleFaderControlChangeUnlessToggled(st, statusByte, noteNumber, value, now) ==
    IF ~IsFaderControlChange(statusByte, noteNumber)
        \/ st.faderButtonToggleState[noteNumber - FADERS_START] # 0
    THEN {st}
    ELSE LET index == noteNumber - FADERS_START
         IN  UpdateFaderValue(
                [st EXCEPT !.faderValuesPrev[index] = value * 100], index, now)

HandleFaderControlChangeLevelOnly(st, statusByte, noteNumber, value, now) ==
    IF ~IsFaderControlChange(statusByte, noteNumber)
    THEN {st}
    ELSE {[st EXCEPT !.faderValuesPrev[noteNumber - FADERS_START] = value * 100]}

HandleFaderControlChange(st, statusByte, noteNumber, value, now) ==
    IF ~IsFaderControlChange(statusByte, noteNumber)
    THEN {st}
    ELSE LET index == noteNumber - FADERS_START
         IN  UpdateFaderValue(
                [st EXCEPT !.faderValuesPrev[index] = value * 100], index, now)

\* Mutant of HandleMIDIMessage: the fader buttons are tried before the
\* shift toggle.
HandleMIDIMessageFaderButtonFirst(st, statusByte, noteNumber, velocity, now) ==
    IF IsFaderButton(statusByte, noteNumber)
    THEN HandleFaderButton(st, noteNumber, velocity, now)
    ELSE IF IsShiftToggle(statusByte, noteNumber)
    THEN {HandleShiftToggle(st, statusByte, velocity)}
    ELSE IF IsSideButton(statusByte, noteNumber)
    THEN {HandleSideButton(st, noteNumber, velocity)}
    ELSE IF IsGridPad(statusByte, noteNumber)
    THEN {HandleGridPad(st, noteNumber, velocity)}
    ELSE HandleFaderControlChange(st, statusByte, noteNumber, velocity, now)

\* handleMIDIMessage: the first handler that claims the message wins.
HandleMIDIMessage(st, statusByte, noteNumber, velocity, now) ==
    IF IsShiftToggle(statusByte, noteNumber)
    THEN {HandleShiftToggle(st, statusByte, velocity)}
    ELSE IF IsFaderButton(statusByte, noteNumber)
    THEN HandleFaderButton(st, noteNumber, velocity, now)
    ELSE IF IsSideButton(statusByte, noteNumber)
    THEN {HandleSideButton(st, noteNumber, velocity)}
    ELSE IF IsGridPad(statusByte, noteNumber)
    THEN {HandleGridPad(st, noteNumber, velocity)}
    ELSE HandleFaderControlChange(st, statusByte, noteNumber, velocity, now)

----------------------------------------------------------------------------
(* LED output *)

SceneButtonLeds(st) ==
    [k \in 1 .. 8 |->
        <<NOTE_ON, SIDE_BUTTONS_START + (k - 1),
          IF k - 1 = st.currentSceneIndex THEN LED_BRIGHT_WHITE ELSE LED_OFF>>]

GridNote(col, row) == GRID_START + (GRID_ROWS - 1 - row) * GRID_COLS + col

\* Mutant of GridPadVelocity: rows at and above maxOptions are lit as well.
GridPadVelocityIgnoringMaxOptions(param, row, sceneIndex) ==
    IF row = 7
    THEN IF param.isRandom THEN RANDOM_ON_COLOR ELSE LED_RED
    ELSE IF row = EffectiveValue(param)
    THEN SIDE_ACTIVE_COLORS[sceneIndex + 1]
    ELSE LED_RED

GridPadVelocity(param, row, sceneIndex) ==
    IF row = 7
    THEN IF param.isRandom THEN RANDOM_ON_COLOR ELSE LED_RED
    ELSE IF row < param.maxOptions
    THEN IF row = EffectiveValue(param)
         THEN SIDE_ACTIVE_COLORS[sceneIndex + 1]
         ELSE LED_RED
    ELSE LED_OFF

\* Mutant of GridPadLeds: on scene 0 the accent colour is keyed by column.
GridPadLedsAccentByColumn(st) ==
    [k \in 1 .. (GRID_COLS * GRID_ROWS) |->
        LET col == (k - 1) \div GRID_ROWS
            row == (k - 1) % GRID_ROWS
        IN  <<OUTPUT_NOTE_ON, GRID_START + (GRID_ROWS - 1 - row) * GRID_COLS + col,
              GridPadVelocity(st.gridRadioState[st.currentSceneIndex][col], row,
                              IF st.currentSceneIndex = 0
                              THEN col ELSE st.currentSceneIndex)>>]

GridPadLeds(st) ==
    [k \in 1 .. (GRID_COLS * GRID_ROWS) |->
        LET col == (k - 1) \div GRID_ROWS
            row == (k - 1) % GRID_ROWS
        IN  <<OUTPUT_NOTE_ON, GridNote(col, row),
              GridPadVelocity(st.gridRadioState[st.currentSceneIndex][col], row,
                              st.currentSceneIndex)>>]

FaderButtonLeds(st) ==
    [k \in 1 .. NUM_FADERS |->
        <<NOTE_ON,
          IF k - 1 < 8 THEN FADER_BUTTONS_START + (k - 1) ELSE FADER_BUTTON_8,
          IF st.faderButtonToggleState[k - 1] # 0 THEN LED_BRIGHT_WHITE
                                                  ELSE LED_OFF>>]

\* Mutant of MidiOutputSendControls: only the messages that differ from the
\* previous update's are sent.
MidiOutputSendControlsIncremental(st) ==
    SelectSeq(SceneButtonLeds(st) \o GridPadLeds(st) \o FaderButtonLeds(st),
              LAMBDA message :
                \A k \in DOMAIN st.ledOut : st.ledOut[k] # message)

MidiOutputSendControls(st) ==
    SceneButtonLeds(st) \o GridPadLeds(st) \o FaderButtonLeds(st)

----------------------------------------------------------------------------
(* The per-frame update *)

\* Mutant of RefreshRandomValue: the new value is offset by the previous one.
RefreshRandomValueFromPrevious(param, tempoIndex, colIndex) ==
    IF param.isRandom
    THEN [param EXCEPT !.randomValue =
            (@ + FloorTimes(PseudoRandomFromSeed(tempoIndex + colIndex),
                            param.maxOptions)) % Max(1, param.maxOptions)]
    ELSE param

RefreshRandomValue(param, tempoIndex, colIndex) ==
    IF param.isRandom
    THEN [param EXCEPT !.randomValue =
            FloorTimes(PseudoRandomFromSeed(tempoIndex + colIndex), param.maxOptions)]
    ELSE param

\* Mutant of RefreshedGrid: only the current scene is refreshed.
RefreshedGridOfCurrentScene(st, tempoIndex) ==
    [i \in Scenes |-> [colIndex \in Columns |->
        IF i = st.currentSceneIndex
        THEN RefreshRandomValue(st.gridRadioState[i][colIndex], tempoIndex, colIndex)
        ELSE st.gridRadioState[i][colIndex]]]

RefreshedGrid(st, tempoIndex) ==
    [i \in Scenes |-> [colIndex \in Columns |->
        RefreshRandomValue(st.gridRadioState[i][colIndex], tempoIndex, colIndex)]]

\* Mutant of Update: the feedback pass runs before the refresh.
UpdateFeedbackFirst(st, tempoIndex, now) ==
    {[s2 EXCEPT !.ledOut = MidiOutputSendControls(st)] :
        s2 \in ProcessRandomFaders(
                  [st EXCEPT !.gridRadioState = RefreshedGrid(st, tempoIndex)], now)}

Update(st, tempoIndex, now) ==
    {[s2 EXCEPT !.ledOut = MidiOutputSendControls(s2)] :
        s2 \in ProcessRandomFaders(
                  [st EXCEPT !.gridRadioState = RefreshedGrid(st, tempoIndex)], now)}

----------------------------------------------------------------------------
(* Keyboard fallback *)

OnMidiAvailabilityChanged(st, available) ==
    IF ~available
    THEN \* enableKeyboardFallback
         IF st.keyboardFallbackActive
         THEN st
         ELSE [st EXCEPT !.keyboardFallbackActive = TRUE,
                         !.keyboardFallbackNoticeShown = TRUE]
    ELSE \* disableKeyboardFallback
         [st EXCEPT !.keyboardFallbackActive = FALSE]

\* Array.prototype.indexOf on a tuple: 0-based, -1 when absent
IndexOf(seq, x) ==
    IF \E i \in 1 .. Len(seq) : seq[i] = x
    THEN (CHOOSE i \in 1 .. Len(seq) :
            seq[i] = x /\ \A j \in 1 .. (i - 1) : seq[j] # x) - 1
    ELSE -1

\* String.prototype.toLowerCase on the keys the model types
UpperCaseKeys == <<"Q", "Z", "X", "A", "L", "F1", "F2", "F9">>
LowerCaseKeys == <<"q", "z", "x", "a", "l", "f1", "f2", "f9">>
ToLowerCase(key) ==
    IF IndexOf(UpperCaseKeys, key) # -1
    THEN LowerCaseKeys[IndexOf(UpperCaseKeys, key) + 1]
    ELSE key

\* handleSceneSelectionFallback: [handled, st]
HandleSceneSelectionFallback(st, key) ==
    LET lowerKey == ToLowerCase(key)
        directIndex == IndexOf(KEYBOARD_SCENE_SELECT_KEYS, lowerKey)
        functionIndex == IndexOf(KEYBOARD_SCENE_FUNCTION_KEYS, key)
    IN  IF directIndex # -1
        THEN [handled |-> TRUE, st |-> SelectScene(st, directIndex)]
        ELSE IF lowerKey = KEYBOARD_SCENE_RANDOM_KEY
        THEN [handled |-> TRUE, st |-> [st EXCEPT !.randomSceneMode = ~@]]
        ELSE IF key = KEYBOARD_SCENE_PREV_KEY
        THEN [handled |-> TRUE,
              st |-> SelectScene(st, (st.currentSceneIndex - 1 + GRID_COLS) % GRID_COLS)]
        ELSE IF key = KEYBOARD_SCENE_NEXT_KEY
        THEN [handled |-> TRUE,
              st |-> SelectScene(st, (st.currentSceneIndex + 1) % GRID_COLS)]
        ELSE IF functionIndex # -1
        THEN \* parseInt("F<n>".replace("F", "")) - 1 is the key's own index
             [handled |-> TRUE, st |-> SelectScene(st, functionIndex)]
        ELSE IF key = KEYBOARD_SCENE_RANDOM_FUNCTION_KEY
        THEN [handled |-> TRUE, st |-> [st EXCEPT !.randomSceneMode = ~@]]
        ELSE [handled |-> FALSE, st |-> st]

\* Mutant of HandleFaderFallback: the channel's timer is left running.
HandleFaderFallbackKeepingTimer(st, index, shiftKey, ctrlOrMetaKey) ==
    LET direction == IF shiftKey THEN -1 ELSE 1
        step == IF ctrlOrMetaKey THEN FALLBACK_FINE_MODIFIER ELSE FALLBACK_FADER_STEP
        nextValue == ClampUnitRange(st.faderValuesPrev[index] + direction * step)
    IN  [st EXCEPT !.faderButtonToggleState[index] = 0,
                   !.faderValuesPrev[index] = nextValue,
                   !.faderValues[index] = nextValue]

\* handleFaderFallback, for a key found in KEYBOARD_FADER_KEYS
HandleFaderFallback(st, index, shiftKey, ctrlOrMetaKey) ==
    LET direction == IF shiftKey THEN -1 ELSE 1
        step == IF ctrlOrMetaKey THEN FALLBACK_FINE_MODIFIER ELSE FALLBACK_FADER_STEP
        nextValue == ClampUnitRange(st.faderValuesPrev[index] + direction * step)
    IN  [st EXCEPT !.faderButtonToggleState[index] = 0,
                   !.faderRandomStates[index] = DeactivateRandomFader(@),
                   !.faderValuesPrev[index] = nextValue,
                   !.faderValues[index] = nextValue]

\* handleGridFallback, for a key found in KEYBOARD_GRID_KEYS: the possible
\* cells afterwards (Math.random() picks the random value)
GridFallbackCell(param, shiftKey, altKey) ==
    IF altKey
    THEN IF param.isRandom
         THEN {[param EXCEPT !.isRandom = FALSE,
                             !.selectedRow =
                                ClampGridSelection(param.selectedRow, param.maxOptions)]}
         ELSE {[param EXCEPT !.isRandom = TRUE, !.randomValue = v] :
                v \in 0 .. Max(0, param.maxOptions - 1)}
    ELSE {[param EXCEPT !.isRandom = FALSE,
                        !.selectedRow =
                            ClampGridSelection(
                                param.selectedRow + (IF shiftKey THEN -1 ELSE 1),
                                param.maxOptions)]}

HandleGridFallback(st, columnIndex, shiftKey, altKey) ==
    {[st EXCEPT !.gridRadioState[st.currentSceneIndex][columnIndex] = cell] :
        cell \in GridFallbackCell(
                    st.gridRadioState[st.currentSceneIndex][columnIndex],
                    shiftKey, altKey)}

HandleFallbackKeyDown(st, key, shiftKey, ctrlOrMetaKey, altKey) ==
    IF ~st.keyboardFallbackActive
    THEN {st}
    ELSE LET scene == HandleSceneSelectionFallback(st, key)
             lowerKey == ToLowerCase(key)
             faderIndex == IndexOf(KEYBOARD_FADER_KEYS, lowerKey)
             columnIndex == IndexOf(KEYBOARD_GRID_KEYS, lowerKey)
         IN  IF scene.handled
             THEN {scene.st}
             ELSE IF faderIndex # -1
             THEN {HandleFaderFallback(st, faderIndex, shiftKey, ctrlOrMetaKey)}
             ELSE IF columnIndex # -1
             THEN HandleGridFallback(st, columnIndex, shiftKey, altKey)
             ELSE {st}

----------------------------------------------------------------------------
(* Inputs *)

Bit(b) == IF b THEN 1 ELSE 0

SceneInputs == (0 .. MaxScene) \cup {-1, GRID_COLS}

TempoInputs == (0 .. MaxTempo) \cup {10}

OptionInputs ==
    { <<5, 3, 8, 8, 8, 8, 8, 8>>,
      <<0, 9, -1, 8, 8, 8, 8, 8>>,
      <<3, 3, 3, 3, 3, 3, 3, 3, 3>> }

\* Every option array for the valid scenes, one for the invalid ones.
MaxOptionsInputs ==
    {<<sceneIndex, optionsArray>> :
        sceneIndex \in 0 .. MaxScene, optionsArray \in OptionInputs}
    \cup {<<sceneIndex, <<5, 3, 8, 8, 8, 8, 8, 8>> >> : sceneIndex \in {-1, GRID_COLS}}

\* Column 0 is pressed at a low row, a middle row and the toggle row; the
\* other columns at the toggle row.
PressRows(c) == IF c = 0 THEN {2, 5, 7} ELSE {7}

GridPresses ==
    UNION {{<<NOTE_ON, GridNote(c, r), 127>> : r \in PressRows(c)} :
            c \in 0 .. MaxColumn}

MessageInputs ==
    GridPresses
    \cup { <<NOTE_ON, GridNote(0, 2), 0>>,
           <<NOTE_ON, SIDE_BUTTONS_START + 1, 127>>,
           <<NOTE_ON, FADER_BUTTONS_START, 127>>,
           <<CONTROL_CHANGE, FADERS_START, 64>> }

KeyInputs ==
    { [key |-> "z", shiftKey |-> FALSE, ctrlOrMetaKey |-> FALSE, altKey |-> FALSE],
      [key |-> "z", shiftKey |-> FALSE, ctrlOrMetaKey |-> FALSE, altKey |-> TRUE],
      [key |-> "Q", shiftKey |-> TRUE, ctrlOrMetaKey |-> FALSE, altKey |-> FALSE] }

----------------------------------------------------------------------------
(* Actions: one per public method, event handler and environment step *)

\* A call is logged with its arguments and with whether it raised an
\* exception instead of returning.
LoggedOutcome(op, a, key, raised) ==
    /\ steps < limit.steps
    /\ steps' = steps + 1
    /\ lastOp' = [op |-> op, a |-> a, key |-> key,
                  again |-> (lastOp.op = op /\ lastOp.a = a /\ lastOp.key = key),
                  raised |-> raised]
    /\ UNCHANGED <<clock, limit>>

\* A call that returned
Logged(op, a, key) == LoggedOutcome(op, a, key, FALSE)

\* A call on the manager
Record(op, a, key) == Logged(op, a, key) /\ UNCHANGED sideVars

SelectSceneCall(index) ==
    /\ Install(SelectScene(Cur, index))
    /\ Record("selectScene", <<index>>, "")

SetMaxOptionsForSceneCall(sceneIndex, optionsArray) ==
    /\ Install(SetMaxOptionsForScene(Cur, sceneIndex, optionsArray))
    /\ Record("setMaxOptionsForScene", <<sceneIndex>> \o optionsArray, "")

ResetAllMaxOptionsCall ==
    /\ Install(ResetAllMaxOptions(Cur))
    /\ Record("resetAllMaxOptions", <<>>, "")

UpdateCall(tempoIndex) ==
    /\ \E st \in Update(Cur, tempoIndex, clock) : Install(st)
    /\ Record("update", <<tempoIndex>>, "")

SetFaderButtonModeCall(mode) ==
    /\ \E st \in SetFaderButtonMode(Cur, mode, clock) : Install(st)
    /\ Record("setFaderButtonMode", <<>>, mode)

MidiMessageEvent(message) ==
    /\ \E st \in HandleMIDIMessage(Cur, message[1], message[2], message[3], clock) :
            Install(st)
    /\ Record("handleMIDIMessage", message, "")

Report(available) == IF available THEN "available" ELSE "unavailable"

MidiAvailabilityEvent(available) ==
    /\ midi.stage = "constructed"
    /\ Install(OnMidiAvailabilityChanged(Cur, available))
    /\ midi' = [midi EXCEPT !.reported = Report(available)]
    /\ Logged("onMidiAvailabilityChanged", <<Bit(available)>>, "")
    /\ UNCHANGED <<controller, virtual>>

KeyDownEvent(event) ==
    /\ \E st \in HandleFallbackKeyDown(Cur, event.key, event.shiftKey,
                                       event.ctrlOrMetaKey, event.altKey) :
            Install(st)
    /\ Record("handleFallbackKeyDown",
              <<Bit(event.shiftKey), Bit(event.ctrlOrMetaKey), Bit(event.altKey)>>,
              event.key)

TickLength == RANDOM_LOW_MAX

\* Time passes between two calls.
ClockAdvance ==
    /\ steps < limit.steps
    /\ clock < limit.ticks * TickLength
    /\ clock' = clock + TickLength
    /\ steps' = steps + 1
    /\ UNCHANGED <<progVars, lastOp, limit, sideVars>>

Next ==
    \/ \E index \in SceneInputs : SelectSceneCall(index)
    \/ \E input \in MaxOptionsInputs :
            SetMaxOptionsForSceneCall(input[1], input[2])
    \/ ResetAllMaxOptionsCall
    \/ \E tempoIndex \in TempoInputs : UpdateCall(tempoIndex)
    \/ \E mode \in {"mute", "random"} : SetFaderButtonModeCall(mode)
    \/ \E message \in MessageInputs : MidiMessageEvent(message)
    \/ \E available \in BOOLEAN : MidiAvailabilityEvent(available)
    \/ \E event \in KeyInputs : KeyDownEvent(event)
    \/ ClockAdvance

Spec == Init /\ [][Next]_vars

----------------------------------------------------------------------------
(* Behaviours of the fader channels: fader buttons, fader control changes, *)
(* keyboard-fallback fader keys, mode switches, update calls and the clock *)

FaderMessageInputs ==
    { <<NOTE_ON, FADER_BUTTONS_START, 127>>,
      <<NOTE_ON, FADER_BUTTONS_START + 2, 127>>,
      <<NOTE_ON, FADER_BUTTON_8, 127>>,
      <<CONTROL_CHANGE, FADERS_START, 64>>,
      <<CONTROL_CHANGE, FADERS_START, 255>>,
      <<CONTROL_CHANGE, FADERS_END, 127>> }

FaderKeyInputs ==
    { [key |-> "q", shiftKey |-> FALSE, ctrlOrMetaKey |-> FALSE, altKey |-> FALSE],
      [key |-> "Q", shiftKey |-> TRUE, ctrlOrMetaKey |-> TRUE, altKey |-> FALSE] }

FaderNext ==
    \/ \E message \in FaderMessageInputs : MidiMessageEvent(message)
    \/ \E mode \in {"mute", "random"} : SetFaderButtonModeCall(mode)
    \/ UpdateCall(0)
    \/ MidiAvailabilityEvent(FALSE)
    \/ \E event \in FaderKeyInputs : KeyDownEvent(event)
    \/ ClockAdvance

FaderSpec == FaderInit /\ [][FaderNext]_vars

----------------------------------------------------------------------------
(* Behaviours of the message decoder: presses, releases and messages of   *)
(* every status at addresses inside and around each address range         *)

DecoderPresses ==
    {<<NOTE_ON, note, 127>> :
        note \in {FADER_BUTTONS_START, FADER_BUTTONS_END, FADER_BUTTON_8,
                  SIDE_BUTTONS_START + 1, GridNote(0, 2)}}
    \cup {<<CONTROL_CHANGE, FADERS_START, 64>>}

DecoderReleases ==
    {<<NOTE_ON, note, 0>> :
        note \in {FADER_BUTTONS_START, FADER_BUTTONS_END, FADER_BUTTON_8,
                  SIDE_BUTTONS_START + 1, SIDE_BUTTONS_END,
                  GRID_START, GRID_END, GridNote(0, 2)}}

DecoderStrays ==
    {<<NOTE_ON, note, 127>> :
        note \in {GRID_END + 1, FADER_BUTTONS_START - 1, FADER_BUTTONS_END + 1,
                  SIDE_BUTTONS_START - 1, SIDE_BUTTONS_END + 1,
                  FADER_BUTTON_8 - 1, FADER_BUTTON_8 + 1}}
    \cup {<<CONTROL_CHANGE, note, 100>> :
        note \in {FADERS_START - 1, FADERS_END + 1, GRID_START,
                  FADER_BUTTONS_START}}
    \cup {<<NOTE_OFF, note, 127>> :
        note \in {GRID_START, FADER_BUTTONS_START, SIDE_BUTTONS_START + 1,
                  SHIFT}}
    \cup {<<160, FADERS_START, 100>>, <<OUTPUT_NOTE_ON, GRID_START, 127>>}

DecoderMessageInputs == DecoderPresses \cup DecoderReleases \cup DecoderStrays

DecoderNext ==
    \/ \E message \in DecoderMessageInputs : MidiMessageEvent(message)
    \/ SetFaderButtonModeCall("mute")

DecoderSpec == DecoderInit /\ [][DecoderNext]_vars

----------------------------------------------------------------------------
(* Behaviours of a RandomFaderController called directly: recomputeValue   *)
(* at valid and invalid indices, syncForMode, process and the clock       *)

RecomputeValueInputs ==
    {<<index, mode, toggleState, prevValue>> :
        index \in {-1, 0, NUM_FADERS - 1, NUM_FADERS},
        mode \in {"mute", "random"},
        toggleState \in {0, 1},
        prevValue \in {64 * 100, UnitLevel}}

SyncForModeInputs ==
    {[i \in Faders |-> 0], [i \in Faders |-> IF i \in {0, 8} THEN 1 ELSE 0]}

RecomputeValueCall(index, mode, toggleState, prevValue) ==
    /\ controller' \in RecomputeValue(controller, index, mode, toggleState,
                                      prevValue, clock)
    /\ Logged("recomputeValue", <<index, toggleState, prevValue>>, mode)
    /\ UNCHANGED <<progVars, midi, virtual>>

SyncForModeCall(mode, toggleStates) ==
    /\ controller' \in SyncForMode(controller, mode, toggleStates,
                                   [i \in Faders |-> 64 * 100], clock)
    /\ Logged("syncForMode", [k \in 1 .. NUM_FADERS |-> toggleStates[k - 1]], mode)
    /\ UNCHANGED <<progVars, midi, virtual>>

ProcessCall(mode) ==
    /\ controller' \in ControllerProcess(controller, clock, mode)
    /\ Logged("process", <<>>, mode)
    /\ UNCHANGED <<progVars, midi, virtual>>

ControllerInit ==
    Constructed /\ limit = [steps |-> MaxControllerSteps, ticks |-> MaxTicks]

ControllerNext ==
    \/ \E input \in RecomputeValueInputs :
            RecomputeValueCall(input[1], input[2], input[3], input[4])
    \/ \E mode \in {"mute", "random"}, toggleStates \in SyncForModeInputs :
            SyncForModeCall(mode, toggleStates)
    \/ \E mode \in {"mute", "random"} : ProcessCall(mode)
    \/ ClockAdvance

ControllerSpec == ControllerInit /\ [][ControllerNext]_vars

----------------------------------------------------------------------------
(* Behaviours of the LED feedback: every scene is selected, columns are    *)
(* resized (one of them with a requested maximum of 0), pads and a fader   *)
(* button are pressed, and update runs                                     *)

LedMessageInputs ==
    { <<NOTE_ON, GridNote(0, 2), 127>>,
      <<NOTE_ON, GridNote(0, 7), 127>>,
      <<NOTE_ON, GridNote(1, 5), 127>>,
      <<NOTE_ON, GridNote(2, 7), 127>>,
      <<NOTE_ON, FADER_BUTTONS_START, 127>>,
      <<NOTE_ON, SIDE_BUTTONS_END, 127>> }

LedMaxOptionsInputs ==
    {<<sceneIndex, optionsArray>> :
        sceneIndex \in {0, GRID_COLS - 1},
        optionsArray \in {<<5, 3, 8, 8, 8, 8, 8, 8>>, <<0, 9, -1, 8, 8, 8, 8, 8>>}}

LedInit == Constructed /\ limit = [steps |-> MaxLedSteps, ticks |-> MaxTicks]

LedNext ==
    \/ \E index \in Scenes : SelectSceneCall(index)
    \/ \E input \in LedMaxOptionsInputs :
            SetMaxOptionsForSceneCall(input[1], input[2])
    \/ \E message \in LedMessageInputs : MidiMessageEvent(message)
    \/ \E tempoIndex \in {0, 10} : UpdateCall(tempoIndex)

LedSpec == LedInit /\ [][LedNext]_vars

----------------------------------------------------------------------------
(* Construction: new APCMiniMK2Manager() runs the MIDIManager constructor, *)
(* which calls initialize() up to its first await, then the field          *)
(* initialisers and the constructor body of APCMiniMK2Manager; initialize()*)
(* resumes in a later task.  A field that is still undefined holds here    *)
(* the value the constructor will give it: before that, only               *)
(* keyboardFallbackActive and keyboardFallbackNoticeShown are read, and    *)
(* undefined is falsy.                                                      *)

ConstructionInit ==
    /\ ConstructorBody
    /\ midi \in {[stage |-> "allocated", supported |-> b, awaiting |-> FALSE,
                   reported |-> "none"] : b \in BOOLEAN}
    /\ controller = InitialController
    /\ virtual = InitialVirtualInput
    /\ limit = [steps |-> MaxConstructionSteps, ticks |-> MaxTicks]

\* super(): the MIDIManager constructor and initialize() up to its first
\* await, or to its return where navigator.requestMIDIAccess is missing.
SuperConstructor(st, supported) ==
    IF supported THEN st ELSE OnMidiAvailabilityChanged(st, FALSE)

\* The field initialisers of APCMiniMK2Manager, run when super() returns.
FieldInitializers(st) ==
    [st EXCEPT !.keyboardFallbackActive = FALSE,
               !.keyboardFallbackNoticeShown = FALSE]

SuperConstructorCall ==
    /\ midi.stage = "allocated"
    /\ Install(SuperConstructor(Cur, midi.supported))
    /\ midi' = [midi EXCEPT !.stage = "super",
                            !.awaiting = midi.supported,
                            !.reported = IF midi.supported THEN "none"
                                                           ELSE "unavailable"]
    /\ Logged("MIDIManager", <<Bit(midi.supported)>>, "")
    /\ UNCHANGED <<controller, virtual>>

SubclassConstructorCall ==
    /\ midi.stage = "super"
    /\ Install(FieldInitializers(Cur))
    /\ midi' = [midi EXCEPT !.stage = "constructed"]
    /\ Logged("APCMiniMK2Manager", <<>>, "")
    /\ UNCHANGED <<controller, virtual>>

\* initialize() after its awaits: setupMidi or the catch clause reports.
InitializeResume(available) ==
    /\ midi.stage = "constructed"
    /\ midi.awaiting
    /\ Install(OnMidiAvailabilityChanged(Cur, available))
    /\ midi' = [midi EXCEPT !.awaiting = FALSE, !.reported = Report(available)]
    /\ Logged("initialize", <<Bit(available)>>, "")
    /\ UNCHANGED <<controller, virtual>>

ConstructionNext ==
    \/ SuperConstructorCall
    \/ SubclassConstructorCall
    \/ \E available \in BOOLEAN : InitializeResume(available)
    \/ \E available \in BOOLEAN : MidiAvailabilityEvent(available)
    \/ midi.stage = "constructed" /\ \E event \in KeyInputs : KeyDownEvent(event)
    \/ midi.stage = "constructed" /\ UpdateCall(0)

ConstructionSpec == ConstructionInit /\ [][ConstructionNext]_vars

----------------------------------------------------------------------------
(* The virtual surface (APCMiniMK2VirtualSurface.ts), the virtual input    *)
(* bound to its elements (APCMiniMK2VirtualInput.ts) and the decoders of   *)
(* APCMiniMK2Base, the class that owns them.  An element is a record of    *)
(* the loop indices that created it, its dataset strings and the address   *)
(* under which the surface registered it for feedback.                     *)

\* String(index) for the indices the surface uses, and Number(value) back;
\* -1 stands for null.
DatasetDigits == <<"0", "1", "2", "3", "4", "5", "6", "7", "8">>
DatasetString(index) == DatasetDigits[index + 1]
ParseDatasetIndex(value) == IndexOf(DatasetDigits, value)

\* APCMiniMK2VirtualSurface.computeGridNote
ComputeGridNote(column, rowFromTop) ==
    LET clampedColumn == Max(0, Min(GRID_COLS - 1, column))
        clampedRowFromTop == Max(0, Min(GRID_ROWS - 1, rowFromTop))
        rowFromBottom == GRID_ROWS - 1 - clampedRowFromTop
    IN  GRID_START + rowFromBottom * GRID_COLS + clampedColumn

\* populateGridPads, populateSideButtons, populateFaders
SurfaceGridPads ==
    {[col |-> col, visualRow |-> visualRow,
      column |-> DatasetString(col), row |-> DatasetString(visualRow),
      note |-> ComputeGridNote(col, visualRow)] :
        visualRow \in 0 .. (GRID_ROWS - 1), col \in 0 .. (GRID_COLS - 1)}

SurfaceSideButtons ==
    {[index |-> DatasetString(i), note |-> SIDE_BUTTONS_START + i] :
        i \in 0 .. (GRID_ROWS - 1)}

SurfaceFaders ==
    {[index |-> DatasetString(i),
      note |-> IF i < GRID_COLS THEN FADER_BUTTONS_START + i ELSE FADER_BUTTON_8,
      controller |-> FADERS_START + i] : i \in 0 .. GRID_COLS}

\* APCMiniMK2VirtualInput.clamp
VirtualClamp(value, maxExclusive) ==
    IF value < 0 THEN 0
    ELSE IF value >= maxExclusive THEN maxExclusive - 1 ELSE value

\* APCMiniMK2VirtualInput.getGridNote
VirtualGetGridNote(column, row) ==
    LET clampedColumn == VirtualClamp(column, GRID_COLS)
        clampedRow == VirtualClamp(row, GRID_ROWS)
        rowFromTop == GRID_ROWS - 1 - clampedRow
        gridIndex == rowFromTop * GRID_COLS + clampedColumn
    IN  GRID_START + gridIndex

\* emit: the message reaches the emitter only while the input is active.
Emit(input, data) ==
    [input EXCEPT !.emitted = IF input.active THEN data ELSE <<>>]

TriggerPad(input, button) ==
    LET column == ParseDatasetIndex(button.column)
        row == ParseDatasetIndex(button.row)
    IN  IF column = -1 \/ row = -1
        THEN [input EXCEPT !.emitted = <<>>]
        ELSE Emit(input, <<NOTE_ON, VirtualGetGridNote(column, row), 127>>)

TriggerSideButton(input, button) ==
    LET index == ParseDatasetIndex(button.index)
    IN  IF index = -1
        THEN [input EXCEPT !.emitted = <<>>]
        ELSE Emit(input, <<NOTE_ON,
                           SIDE_BUTTONS_START + VirtualClamp(index, GRID_ROWS), 127>>)

TriggerFaderButton(input, button) ==
    LET index == ParseDatasetIndex(button.index)
        clampedIndex == VirtualClamp(index, GRID_COLS + 1)
    IN  IF index = -1
        THEN [input EXCEPT !.emitted = <<>>]
        ELSE Emit(input, <<NOTE_ON,
                           IF clampedIndex < GRID_COLS
                           THEN FADER_BUTTONS_START + clampedIndex
                           ELSE FADER_BUTTON_8,
                           127>>)

HandleFaderInput(input, slider, sliderValue) ==
    LET index == ParseDatasetIndex(slider.index)
    IN  IF index = -1
        THEN [input EXCEPT !.emitted = <<>>]
        ELSE Emit(input, <<CONTROL_CHANGE,
                           FADERS_START + VirtualClamp(index, GRID_COLS + 1),
                           VirtualClamp(sliderValue, 128)>>)

\* APCMiniMK2Base.getFaderButtonIndex and getGridCoordinate
GetFaderButtonIndex(note) ==
    IF note >= FADER_BUTTONS_START /\ note <= FADER_BUTTONS_END
    THEN note - FADER_BUTTONS_START
    ELSE IF note = FADER_BUTTON_8 THEN GRID_COLS ELSE -1

GetGridCoordinate(note) ==
    LET gridIndex == note - GRID_START
        rowFromTop == gridIndex \div GRID_COLS
    IN  [column |-> gridIndex % GRID_COLS, row |-> GRID_ROWS - 1 - rowFromTop]

\* APCMiniMK2Base.onMidiAvailabilityChanged of a class that uses the
\* virtual input: setActive(!available).
VirtualAvailabilityEvent(available) ==
    /\ virtual' = [virtual EXCEPT !.active = ~available]
    /\ Logged("setActive", <<Bit(~available)>>, "")
    /\ UNCHANGED <<progVars, midi, controller>>

PadPointerDown(button) ==
    /\ virtual' = TriggerPad(virtual, button)
    /\ Logged("triggerPad", <<button.col, button.visualRow, button.note>>, "")
    /\ UNCHANGED <<progVars, midi, controller>>

SideButtonClick(button) ==
    /\ virtual' = TriggerSideButton(virtual, button)
    /\ Logged("triggerSideButton", <<button.note>>, button.index)
    /\ UNCHANGED <<progVars, midi, controller>>

FaderButtonClick(button) ==
    /\ virtual' = TriggerFaderButton(virtual, button)
    /\ Logged("triggerFaderButton", <<button.note>>, button.index)
    /\ UNCHANGED <<progVars, midi, controller>>

FaderSliderInput(slider, sliderValue) ==
    /\ virtual' = HandleFaderInput(virtual, slider, sliderValue)
    /\ Logged("handleFaderInput", <<slider.controller, sliderValue>>, slider.index)
    /\ UNCHANGED <<progVars, midi, controller>>

SurfaceInit ==
    Constructed /\ limit = [steps |-> MaxSurfaceSteps, ticks |-> MaxTicks]

SurfaceNext ==
    \/ \E available \in BOOLEAN : VirtualAvailabilityEvent(available)
    \/ \E button \in SurfaceGridPads : PadPointerDown(button)
    \/ \E button \in SurfaceSideButtons : SideButtonClick(button)
    \/ \E button \in SurfaceFaders : FaderButtonClick(button)
    \/ \E slider \in SurfaceFaders, sliderValue \in {0, 64, 127} :
            FaderSliderInput(slider, sliderValue)

SurfaceSpec == SurfaceInit /\ [][SurfaceNext]_vars

----------------------------------------------------------------------------
(* Behaviours of the public interface called with valid and invalid        *)
(* arguments: scene indices and fader indices inside and outside their     *)
(* ranges, and messages of every status inside and around each address     *)
(* range.  A call either returns or raises; a call that raises leaves the  *)
(* fields as they were when the exception left the method.                 *)

\* getParamValues: this.gridRadioState[sceneIndex] is undefined for an index
\* outside the array, and params.map on undefined raises a TypeError.
GetParamValuesRaises(st, sceneIndex) == sceneIndex \notin DOMAIN st.gridRadioState

\* getParamValue: the same for the scene, and param.isRandom on an undefined
\* cell raises as well.
GetParamValueRaises(st, columnIndex, sceneIndex) ==
    \/ sceneIndex \notin DOMAIN st.gridRadioState
    \/ columnIndex \notin DOMAIN st.gridRadioState[sceneIndex]

\* RandomFaderController.activate: state.isActive on an undefined state raises.
ActivateRaises(ctl, index) == index \notin DOMAIN ctl.states

Activate(ctl, index, now) ==
    IF ActivateRaises(ctl, index)
    THEN {ctl}
    ELSE {[ctl EXCEPT !.states[index] = state] :
            state \in ActivateRandomFader(ctl.states[index], now)}

\* RandomFaderController.deactivate returns early on an undefined state.
Deactivate(ctl, index) ==
    IF index \notin DOMAIN ctl.states
    THEN ctl
    ELSE [ctl EXCEPT !.states[index] = DeactivateRandomFader(@)]

GetParamValuesCall(sceneIndex) ==
    /\ LoggedOutcome("getParamValues", <<sceneIndex>>, "",
                     GetParamValuesRaises(Cur, sceneIndex))
    /\ UNCHANGED <<progVars, sideVars>>

GetParamValueCall(columnIndex, sceneIndex) ==
    /\ LoggedOutcome("getParamValue", <<columnIndex, sceneIndex>>, "",
                     GetParamValueRaises(Cur, columnIndex, sceneIndex))
    /\ UNCHANGED <<progVars, sideVars>>

ActivateCall(index) ==
    /\ controller' \in Activate(controller, index, clock)
    /\ LoggedOutcome("activate", <<index>>, "", ActivateRaises(controller, index))
    /\ UNCHANGED <<progVars, midi, virtual>>

DeactivateCall(index) ==
    /\ controller' = Deactivate(controller, index)
    /\ Logged("deactivate", <<index>>, "")
    /\ UNCHANGED <<progVars, midi, virtual>>

FaderIndexInputs == {-1, 0, NUM_FADERS - 1, NUM_FADERS}

InterfaceInit ==
    Constructed /\ limit = [steps |-> MaxInterfaceSteps, ticks |-> MaxTicks]

InterfaceNext ==
    \/ \E index \in SceneInputs : SelectSceneCall(index)
    \/ \E input \in MaxOptionsInputs :
            SetMaxOptionsForSceneCall(input[1], input[2])
    \/ \E sceneIndex \in SceneInputs : GetParamValuesCall(sceneIndex)
    \/ \E columnIndex \in {0, GRID_COLS}, sceneIndex \in SceneInputs :
            GetParamValueCall(columnIndex, sceneIndex)
    \/ \E message \in DecoderMessageInputs : MidiMessageEvent(message)
    \/ \E input \in RecomputeValueInputs :
            RecomputeValueCall(input[1], input[2], input[3], input[4])
    \/ \E index \in FaderIndexInputs : ActivateCall(index)
    \/ \E index \in FaderIndexInputs : DeactivateCall(index)

InterfaceSpec == InterfaceInit /\ [][InterfaceNext]_vars

----------------------------------------------------------------------------
(* Behaviours of the scene selector: selectScene with valid and invalid    *)
(* indices, side-button presses and releases, the scene keys of the        *)
(* keyboard fallback, and the operations that are not scene selections     *)

SceneMessageInputs ==
    { <<NOTE_ON, SIDE_BUTTONS_START + 1, 127>>,
      <<NOTE_ON, SIDE_BUTTONS_END, 127>>,
      <<NOTE_ON, SIDE_BUTTONS_START + 2, 0>>,
      <<NOTE_OFF, SIDE_BUTTONS_START + 2, 127>>,
      <<NOTE_ON, SHIFT, 127>>,
      <<NOTE_ON, GridNote(0, 2), 127>>,
      <<NOTE_ON, FADER_BUTTONS_START, 127>>,
      <<CONTROL_CHANGE, FADERS_START, 64>> }

SceneKeyInputs ==
    {[key |-> k, shiftKey |-> FALSE, ctrlOrMetaKey |-> FALSE, altKey |-> FALSE] :
        k \in {"s", "A", "[", "]", "F2", "l", "F9", "z", "q"}}

SceneInit == Constructed /\ limit = [steps |-> MaxSceneSteps, ticks |-> MaxTicks]

SceneNext ==
    \/ \E index \in SceneInputs \cup {GRID_COLS - 1} : SelectSceneCall(index)
    \/ \E message \in SceneMessageInputs : MidiMessageEvent(message)
    \/ \E available \in BOOLEAN : MidiAvailabilityEvent(available)
    \/ \E event \in SceneKeyInputs : KeyDownEvent(event)
    \/ SetMaxOptionsForSceneCall(1, <<5, 3, 8, 8, 8, 8, 8, 8>>)
    \/ ResetAllMaxOptionsCall
    \/ SetFaderButtonModeCall("mute")
    \/ UpdateCall(0)

SceneSpec == SceneInit /\ [][SceneNext]_vars

----------------------------------------------------------------------------
(* The manager's inlined random-fader logic and a RandomFaderController    *)
(* driven in lockstep by the same fader events.  The controller's caller   *)
(* holds the toggle states, the previous levels and the mode, which are    *)
(* the manager's fields here, and passes them as the manager's handlers    *)
(* pass them to updateFaderValue, setFaderButtonMode and                   *)
(* processRandomFaders.  A drawn duration is the one nondeterministic      *)
(* choice of either side and is recorded in nextSwitchTime.                *)

EquivalenceEvents ==
    {[kind |-> "button", index |-> i, value |-> 127, mode |-> ""] : i \in {0, 2}}
    \cup {[kind |-> "level", index |-> 0, value |-> 64, mode |-> ""],
          [kind |-> "level", index |-> 8, value |-> 127, mode |-> ""]}
    \cup {[kind |-> "mode", index |-> 0, value |-> 0, mode |-> mode] :
            mode \in {"mute", "random"}}
    \cup {[kind |-> "process", index |-> 0, value |-> 0, mode |-> ""]}

\* The manager's handler of the event.
ManagerFaderEvent(st, event, now) ==
    CASE event.kind = "button" ->
            HandleMIDIMessage(st, NOTE_ON, FADER_BUTTONS_START + event.index,
                              event.value, now)
      [] event.kind = "level" ->
            HandleMIDIMessage(st, CONTROL_CHANGE, FADERS_START + event.index,
                              event.value, now)
      [] event.kind = "mode" -> SetFaderButtonMode(st, event.mode, now)
      [] event.kind = "process" -> Update(st, 0, now)

\* The controller's method for the event, called with the raw inputs as
\* they are once the event has been recorded.
ControllerFaderEvent(ctl, st, event, now) ==
    CASE event.kind = "button" ->
            {[c2 EXCEPT !.targetValues[event.index] = c2.returned] :
                c2 \in RecomputeValue(ctl, event.index, st.faderButtonMode,
                                      1 - st.faderButtonToggleState[event.index],
                                      st.faderValuesPrev[event.index], now)}
      [] event.kind = "level" ->
            {[c2 EXCEPT !.targetValues[event.index] = c2.returned] :
                c2 \in RecomputeValue(ctl, event.index, st.faderButtonMode,
                                      st.faderButtonToggleState[event.index],
                                      event.value * 100, now)}
      [] event.kind = "mode" ->
            IF st.faderButtonMode = event.mode
            THEN {ctl}
            ELSE SyncForMode(ctl, event.mode, st.faderButtonToggleState,
                             st.faderValuesPrev, now)
      [] event.kind = "process" -> ControllerProcess(ctl, now, st.faderButtonMode)

\* The per-channel states and the outputs of either side
ManagerChannels(st) == <<st.faderRandomStates, st.faderValues>>
ControllerChannels(ctl) == <<ctl.states, ctl.targetValues>>

\* Both sides handle the event with the same drawn durations.
LockstepEvent(event) ==
    /\ \E st \in ManagerFaderEvent(Cur, event, clock),
          ctl \in ControllerFaderEvent(controller, Cur, event, clock) :
            /\ \A i \in Faders : ctl.states[i].nextSwitchTime
                                    = st.faderRandomStates[i].nextSwitchTime
            /\ Install(st)
            /\ controller' = ctl
    /\ Logged(event.kind, <<event.index, event.value>>, event.mode)
    /\ UNCHANGED <<midi, virtual>>

EquivalenceInit ==
    Constructed /\ limit = [steps |-> MaxEquivalenceSteps, ticks |-> MaxFaderTicks]

EquivalenceNext ==
    \/ \E event \in EquivalenceEvents : LockstepEvent(event)
    \/ ClockAdvance

EquivalenceSpec == EquivalenceInit /\ [][EquivalenceNext]_vars

----------------------------------------------------------------------------
(* Vocabulary of the properties *)

Cell(s, c) == gridRadioState[s][c]
CellAfter(s, c) == gridRadioState'[s][c]

\* The step just taken is the call op.
Called(op) == lastOp'.op = op /\ steps' = steps + 1 /\ clock' = clock

\* The step just taken delivers a note-on press (intensity > 0) of the grid
\* address of column c, row r (counted from the bottom).
Pressed(c, r) ==
    /\ Called("handleMIDIMessage")
    /\ lastOp'.a[1] = 144
    /\ lastOp'.a[2] = (7 - r) * 8 + c
    /\ lastOp'.a[3] > 0

\* The arguments of a setMaxOptionsForScene call recorded in o.
SceneArg(o) == o.a[1]
OptionsArg(o) == Tail(o.a)
BadMaxOptionsArgs(o) ==
    SceneArg(o) < 0 \/ SceneArg(o) > 7 \/ Len(OptionsArg(o)) # 8

\* The step just taken delivers the message <<status, address, value>>.
Received(status, address, value) ==
    Called("handleMIDIMessage") /\ lastOp'.a = <<status, address, value>>

\* The last call delivered the message <<status, address, value>>.
LastReceived(status, address, value) ==
    lastOp.op = "handleMIDIMessage" /\ lastOp.a = <<status, address, value>>

\* The step just taken delivers a control change at one of the fader
\* addresses 48..56.
ControlChanged ==
    /\ Called("handleMIDIMessage")
    /\ lastOp'.a[1] = 176
    /\ lastOp'.a[2] \in 48 .. 56

\* The phase of a random fader state: Idle, Low or High.
Phase(state) ==
    IF ~state.isActive THEN "Idle"
    ELSE IF state.isHighPhase THEN "High" ELSE "Low"

\* The positions of the messages of out that carry the address.
LedPositions(out, address) == {k \in DOMAIN out : out[k][2] = address}

\* The value byte of the (first) message of out at the address.
Led(out, address) ==
    out[CHOOSE k \in LedPositions(out, address) :
            \A j \in LedPositions(out, address) : k <= j][3]

\* The grid address of column c, row r (counted from the bottom).
PadAddress(c, r) == (7 - r) * 8 + c

\* The addresses of the nine fader buttons, by channel.
FaderButtonAddress(i) == IF i < 8 THEN 100 + i ELSE 122

\* floor(pseudoRandom(seed) * m), read off the table
ExpectedRandom(seed, m) == (PseudoRandomTable[seed + 1] * m) \div 1000000

----------------------------------------------------------------------------
(* Properties *)

\* C1: in every reachable state every cell with maxOptions > 0 has an
\* effective value (isRandom ? randomValue : selectedRow) below maxOptions.
C1_EffectiveValueBelowMaxOptions ==
    \A s \in Scenes, c \in Columns :
        Cell(s, c).maxOptions > 0 =>
            (IF Cell(s, c).isRandom THEN Cell(s, c).randomValue
                                    ELSE Cell(s, c).selectedRow)
                < Cell(s, c).maxOptions

\* C2: right after an accepted setMaxOptionsForScene(scene, options) every
\* column's maxOptions is the requested value clamped into [0,8], and a
\* column whose clamped maximum is 0 has isRandom = false and selectedRow = 0.
C2_ClampsIntoZeroToEight ==
    (lastOp.op = "setMaxOptionsForScene" /\ ~BadMaxOptionsArgs(lastOp)) =>
        \A c \in Columns :
            LET clamped == Max(0, Min(8, OptionsArg(lastOp)[c + 1]))
                cell == Cell(SceneArg(lastOp), c)
            IN  /\ cell.maxOptions = clamped
                /\ clamped = 0 => (~cell.isRandom /\ cell.selectedRow = 0)

\* Supporting fact for C3: no reachable cell has maxOptions below 1.
MaxOptionsAtLeastOne ==
    \A s \in Scenes, c \in Columns : Cell(s, c).maxOptions >= 1

\* C4: an accepted setMaxOptionsForScene that leaves a column with a non-zero
\* maxOptions m leaves selectedRow and randomValue of that cell at most m-1:
\* each is lowered to m-1 if it exceeded it and is otherwise unchanged.
C4_ResizeClampsSelectedAndRandom ==
    [][(Called("setMaxOptionsForScene") /\ ~BadMaxOptionsArgs(lastOp')) =>
        \A c \in Columns :
            LET old == Cell(SceneArg(lastOp'), c)
                new == CellAfter(SceneArg(lastOp'), c)
                m == new.maxOptions
            IN  m # 0 =>
                    /\ new.selectedRow = Min(old.selectedRow, m - 1)
                    /\ new.randomValue = Min(old.randomValue, m - 1)]_vars

\* C5: setMaxOptionsForScene with a scene outside 0..7 or an options array
\* whose length is not 8 changes no grid cell, not the current scene and no
\* fader state.
C5_RejectedCallMutatesNothing ==
    [][(Called("setMaxOptionsForScene") /\ BadMaxOptionsArgs(lastOp')) =>
        UNCHANGED <<gridRadioState, currentSceneIndex, sideButtonToggleState,
                    faderValues, faderValuesPrev, faderButtonToggleState,
                    faderButtonMode, faderRandomStates>>]_vars

\* A call with a 9-entry options array was rejected while column 0 of the
\* addressed scene held selectedRow = 5, which an accepted call would lower.
C5_Witness ==
    /\ lastOp.op = "setMaxOptionsForScene"
    /\ Len(OptionsArg(lastOp)) = 9
    /\ SceneArg(lastOp) = 0
    /\ Cell(0, 0).selectedRow = 5

\* C6: a grid press of (column c, row r) with r # 7 and r < maxOptions of the
\* current scene's cell c sets selectedRow = r and isRandom = false, so that
\* getParamValues(currentScene)[c] = r; with r # 7 and r >= maxOptions the
\* cell is unchanged.
C6_PressSelectsRow ==
    [][\A c \in Columns, r \in 0 .. 6 :
        Pressed(c, r) =>
            LET old == Cell(currentSceneIndex, c)
                new == CellAfter(currentSceneIndex, c)
            IN  IF r < old.maxOptions
                THEN /\ new.selectedRow = r
                     /\ ~new.isRandom
                     /\ GetParamValues(Cur, currentSceneIndex)'[c] = r
                ELSE new = old]_vars

\* Scenario A: after setMaxOptionsForScene(0, [5,...]) the press of (0, 2)
\* has selected row 2 in scene 0.
C6_Witness ==
    /\ lastOp.op = "handleMIDIMessage"
    /\ lastOp.a = <<144, 40, 127>>
    /\ currentSceneIndex = 0
    /\ Cell(0, 0).maxOptions = 5
    /\ Cell(0, 0).selectedRow = 2
    /\ ~Cell(0, 0).isRandom
    /\ GetParamValues(Cur, 0)[0] = 2

\* The steps of scenario B that C7 and its amendment share: on a cell of the
\* current scene with maxOptions = 3, a row-7 press of a cell that is not
\* random makes it random, and update(10) leaves the randomValue of a random
\* cell in {0,1,2}.
ScenarioBOnAndRefresh(c) ==
    LET old == Cell(currentSceneIndex, c)
        new == CellAfter(currentSceneIndex, c)
    IN  /\ (Pressed(c, 7) /\ old.maxOptions = 3 /\ ~old.isRandom) => new.isRandom
        /\ (Called("update") /\ lastOp'.a = <<10>> /\ old.maxOptions = 3
                /\ old.isRandom) => new.randomValue \in {0, 1, 2}

\* C7 as stated: on a cell of the current scene with maxOptions = 3 a row-7
\* press makes isRandom true, update(10) leaves randomValue in {0,1,2}, and a
\* second row-7 press makes isRandom false and leaves selectedRow in {0,1}.
C7_ScenarioB_AsStated ==
    [][\A c \in Columns :
        /\ ScenarioBOnAndRefresh(c)
        /\ (Pressed(c, 7) /\ Cell(currentSceneIndex, c).maxOptions = 3
                /\ Cell(currentSceneIndex, c).isRandom) =>
            /\ ~CellAfter(currentSceneIndex, c).isRandom
            /\ CellAfter(currentSceneIndex, c).selectedRow \in {0, 1}]_vars

\* C7 as amended: ... and a second row-7 press makes isRandom false and sets
\* selectedRow to 2.
C7_ScenarioB ==
    [][\A c \in Columns :
        /\ ScenarioBOnAndRefresh(c)
        /\ (Pressed(c, 7) /\ Cell(currentSceneIndex, c).maxOptions = 3
                /\ Cell(currentSceneIndex, c).isRandom) =>
            /\ ~CellAfter(currentSceneIndex, c).isRandom
            /\ CellAfter(currentSceneIndex, c).selectedRow = 2]_vars

\* Scenario B has run on column 1 of scene 0: maxOptions set to 3, random
\* switched on, refreshed (floor(pseudoRandom(11) * 3) = 1), switched off.
C7_Witness ==
    /\ steps = 4
    /\ lastOp.op = "handleMIDIMessage"
    /\ lastOp.a = <<144, 1, 127>>
    /\ currentSceneIndex = 0
    /\ Cell(0, 1) = [selectedRow |-> 2, maxOptions |-> 3, isRandom |-> FALSE,
                     randomValue |-> 1]

\* C8 as stated: when a row-7 press turns random mode off on a cell with
\* maxOptions > 0, selectedRow becomes the previous selectedRow clamped to at
\* most min(maxOptions,7) - 1 (kept if within range, lowered otherwise).
C8_RandomOffClampsSelection ==
    [][\A c \in Columns :
        LET old == Cell(currentSceneIndex, c)
            new == CellAfter(currentSceneIndex, c)
        IN  (Pressed(c, 7) /\ old.maxOptions > 0 /\ old.isRandom) =>
                new.selectedRow = Min(old.selectedRow, Min(old.maxOptions, 7) - 1)]_vars

\* C8 as amended: when a row-7 press turns random mode off on a cell with
\* maxOptions > 0, selectedRow becomes min(maxOptions,7) - 1 whatever it was.
C8_RandomOffSelectsTopRow ==
    [][\A c \in Columns :
        LET old == Cell(currentSceneIndex, c)
            new == CellAfter(currentSceneIndex, c)
        IN  (Pressed(c, 7) /\ old.maxOptions > 0 /\ old.isRandom) =>
                /\ ~new.isRandom
                /\ new.selectedRow = Min(old.maxOptions, 7) - 1]_vars

\* A row-7 press has turned random off on column 0 of scene 0, whose
\* maxOptions is the constructor's 8: selectedRow is 6.
C8_Witness ==
    /\ lastOp.op = "handleMIDIMessage"
    /\ lastOp.a = <<144, 0, 127>>
    /\ currentSceneIndex = 0
    /\ Cell(0, 0).maxOptions = 8
    /\ ~Cell(0, 0).isRandom
    /\ Cell(0, 0).selectedRow = 6

C10_RefreshDeterministic ==
    /\ [](lastOp.op = "update" =>
            \A s1 \in Scenes, s2 \in Scenes, c \in Columns :
                (Cell(s1, c).isRandom /\ Cell(s2, c).isRandom
                    /\ Cell(s1, c).maxOptions = Cell(s2, c).maxOptions) =>
                    Cell(s1, c).randomValue = Cell(s2, c).randomValue)
    /\ [][(Called("update") /\ lastOp.op = "update" /\ lastOp'.a = lastOp.a) =>
            \A s \in Scenes, c \in Columns :
                CellAfter(s, c).randomValue = Cell(s, c).randomValue]_vars

\* update(t) has been called twice in a row while a cell was random with a
\* non-zero randomValue.
C10_Witness ==
    /\ lastOp.op = "update"
    /\ lastOp.again
    /\ \E s \in Scenes, c \in Columns :
            Cell(s, c).isRandom /\ Cell(s, c).randomValue # 0

\* C11: a note-on with intensity > 0 at the master-button address 122 flips
\* the toggle state of fader channel 8, as a note-on at 100+i (i in 0..7)
\* flips the toggle state of channel i.
C11_MasterButtonFlipsChannelEight ==
    [][\A note \in (100 .. 107) \cup {122} :
        Received(144, note, 127) =>
            LET i == IF note = 122 THEN 8 ELSE note - 100
            IN  faderButtonToggleState'[i] = 1 - faderButtonToggleState[i]]_vars

\* C12: a note-on with intensity 0 at a fader-button, scene-select or grid
\* address changes no toggle state, not the current scene, no grid cell and
\* no fader output.
C12_ReleaseChangesNothing ==
    [][\A note \in (0 .. 63) \cup (100 .. 107) \cup (112 .. 119) \cup {122} :
        Received(144, note, 0) =>
            UNCHANGED <<faderButtonToggleState, sideButtonToggleState,
                        currentSceneIndex, gridRadioState, faderValues>>]_vars

\* The release of scene button 1 arrived after a fader button and a grid pad
\* had been pressed, and scene 0 is still the current one.
C12_Witness ==
    /\ LastReceived(144, 113, 0)
    /\ currentSceneIndex = 0
    /\ faderButtonToggleState[0] = 1
    /\ Cell(0, 0).selectedRow = 2

\* C13: a message that is neither a note-on at 0..63, 100..107, 112..119 or
\* 122 nor a control change at 48..56 changes no grid cell, no scene
\* selection, no toggle state, no fader level and no random-phase state.
C13_StrayMessageIgnored ==
    [][(/\ Called("handleMIDIMessage")
        /\ ~(/\ lastOp'.a[1] = 144
              /\ lastOp'.a[2] \in (0 .. 63) \cup (100 .. 107) \cup (112 .. 119)
                                    \cup {122})
        /\ ~(lastOp'.a[1] = 176 /\ lastOp'.a[2] \in 48 .. 56)) =>
            UNCHANGED <<gridRadioState, currentSceneIndex, sideButtonToggleState,
                        faderButtonToggleState, faderValues, faderValuesPrev,
                        faderRandomStates>>]_vars

\* A note-off at a grid address arrived after a fader button and a grid pad
\* had been pressed.
C13_Witness ==
    /\ LastReceived(128, 0, 127)
    /\ faderButtonToggleState[0] = 1
    /\ faderRandomStates[0].isActive
    /\ Cell(0, 0).selectedRow = 2
    /\ ~Cell(0, 0).isRandom

\* C14: a control change at 48+i (i in 0..8) with value b sets the previous
\* level of channel i to b/127 and changes no other channel's previous level
\* or output and no toggle state; if channel i is not toggled its output
\* becomes b/127.
C14_ControlChangeSetsLevel ==
    [][ControlChanged =>
        LET i == lastOp'.a[2] - 48
            b == lastOp'.a[3]
        IN  /\ 127 * faderValuesPrev'[i] = b * UnitLevel
            /\ \A j \in (0 .. 8) \ {i} :
                    /\ faderValuesPrev'[j] = faderValuesPrev[j]
                    /\ faderValues'[j] = faderValues[j]
            /\ faderButtonToggleState' = faderButtonToggleState
            /\ faderButtonToggleState[i] = 0 =>
                    127 * faderValues'[i] = b * UnitLevel]_vars

\* The control change <<48, 64>> arrived on the untoggled channel 0 after the
\* level of channel 8 had been set: channel 0 outputs 64/127.
C14_Witness ==
    /\ LastReceived(176, 48, 64)
    /\ faderButtonToggleState[0] = 0
    /\ 127 * faderValues[0] = 64 * UnitLevel
    /\ faderValues[8] = UnitLevel

\* C15: every fader channel's output level is within [0,1] in every
\* reachable state, the bytes of inbound messages ranging over 0..255.
C15_OutputWithinUnitRange ==
    \A i \in Faders : faderValues[i] >= 0 /\ faderValues[i] <= UnitLevel

\* C16: whenever the fader mode is mute, every channel whose toggle state is
\* on has output exactly 0.
C16_MutedChannelsOutputZero ==
    faderButtonMode = "mute" =>
        \A i \in Faders : faderButtonToggleState[i] # 0 => faderValues[i] = 0

\* In mute mode a control change has set the level of the toggled channel 0
\* to 64/127, and the channel outputs 0.
C16_Witness ==
    /\ faderButtonMode = "mute"
    /\ LastReceived(176, 48, 64)
    /\ faderButtonToggleState[0] = 1
    /\ 127 * faderValuesPrev[0] = 64 * UnitLevel
    /\ faderValues[0] = 0

C18_PhaseCycle ==
    /\ [](\A i \in Faders :
            /\ Phase(faderRandomStates[i]) = "High" =>
                    faderRandomStates[i].currentValue = 1
            /\ Phase(faderRandomStates[i]) # "High" =>
                    faderRandomStates[i].currentValue = 0)
    /\ [][\A i \in Faders :
            LET old == faderRandomStates[i]
                new == faderRandomStates'[i]
                due == Called("update") /\ clock >= old.nextSwitchTime
            IN  /\ Phase(old) = "Idle" => Phase(new) \in {"Idle", "Low"}
                /\ (Phase(old) = "Low" /\ due) =>
                        (Phase(new) = "High" /\ new.nextSwitchTime > clock)
                /\ (Phase(old) = "High" /\ due) =>
                        (Phase(new) = "Low" /\ new.nextSwitchTime > clock)
                /\ (Phase(old) # "Idle" /\ ~due) =>
                        (new = old \/ Phase(new) = "Idle")]_vars

\* An update made 8000 ms after the start found channel 0 in Low and flipped
\* it once, to High, with the next switch scheduled after the call.
C18_Witness ==
    /\ lastOp.op = "update"
    /\ steps = 4
    /\ clock = 2 * TickLength
    /\ Phase(faderRandomStates[0]) = "High"
    /\ faderRandomStates[0].nextSwitchTime > clock
    /\ faderValues[0] = UnitLevel

\* C19: activation is idempotent: a control change on a toggled channel in
\* random mode, which calls activateRandomFader on an active channel, leaves
\* the channel's phase, currentValue and nextSwitchTime unchanged.
C19_ActivateIdempotent ==
    [][ControlChanged =>
        LET i == lastOp'.a[2] - 48
        IN  (/\ faderButtonMode = "random"
             /\ faderButtonToggleState[i] # 0
             /\ faderRandomStates[i].isActive) =>
                faderRandomStates'[i] = faderRandomStates[i]]_vars

\* A control change arrived at 4000 ms on the toggled channel 0, activated at
\* 0 ms: the switch scheduled before 4000 ms is still the pending one.
C19_Witness ==
    /\ LastReceived(176, 48, 64)
    /\ faderButtonMode = "random"
    /\ faderButtonToggleState[0] = 1
    /\ clock = TickLength
    /\ Phase(faderRandomStates[0]) = "Low"
    /\ faderRandomStates[0].nextSwitchTime < clock

\* C20: a step that deactivates a channel leaves it idle with currentValue 0
\* and no scheduled time, and no update call changes the output,
\* currentValue, phase or schedule of an idle channel.
C20_DeactivatedChannelHalted ==
    [][\A i \in Faders :
        LET old == faderRandomStates[i]
            new == faderRandomStates'[i]
        IN  /\ (old.isActive /\ ~new.isActive) =>
                    new = [isActive |-> FALSE, isHighPhase |-> FALSE,
                           currentValue |-> 0, nextSwitchTime |-> 0]
            /\ (Called("update") /\ ~old.isActive) =>
                    (new = old /\ faderValues'[i] = faderValues[i])]_vars

\* update ran at 4000 ms or later in random mode on channel 0, toggled off
\* and idle, whose level a control change had set to 64/127: the channel
\* still outputs that level.
C20_Witness ==
    /\ lastOp.op = "update"
    /\ steps = 5
    /\ clock >= TickLength
    /\ faderButtonMode = "random"
    /\ faderButtonToggleState[0] = 0
    /\ ~faderRandomStates[0].isActive
    /\ 127 * faderValues[0] = 64 * UnitLevel

\* C21: in random mode, a press that toggles a fader button on (fader 2
\* among them) leaves the channel's output at 0, in Low, with the switch
\* scheduled less than max(lowRange) = RANDOM_LOW_MAX ms ahead, so that the
\* schedule has passed once the clock has advanced by RANDOM_LOW_MAX; an
\* update call made at or after the scheduled time of a Low channel makes its
\* output 1 and schedules the next switch less than max(highRange) =
\* RANDOM_HIGH_MAX ms ahead; an update call made at or after the scheduled
\* time of a High channel returns its output to 0.
C21_ToggledChannelPulses ==
    [][\A i \in 0 .. 7 :
        LET old == faderRandomStates[i]
            new == faderRandomStates'[i]
            due == Called("update") /\ faderButtonMode = "random"
                                    /\ clock >= old.nextSwitchTime
        IN  /\ (/\ Received(144, 100 + i, 127)
                /\ faderButtonMode = "random"
                /\ faderButtonToggleState[i] = 0) =>
                    /\ faderButtonToggleState'[i] = 1
                    /\ faderValues'[i] = 0
                    /\ Phase(new) = "Low"
                    /\ new.nextSwitchTime >= clock
                    /\ new.nextSwitchTime < clock + RANDOM_LOW_MAX
            /\ (due /\ Phase(old) = "Low") =>
                    /\ faderValues'[i] = UnitLevel
                    /\ new.nextSwitchTime >= clock
                    /\ new.nextSwitchTime < clock + RANDOM_HIGH_MAX
            /\ (due /\ Phase(old) = "High") => faderValues'[i] = 0]_vars

\* Fader button 2 was pressed at 0 ms, the clock advanced by RANDOM_LOW_MAX
\* and update ran: channel 2 outputs 1 and its return to Low is scheduled
\* less than RANDOM_HIGH_MAX ms ahead.
C21_Witness ==
    /\ lastOp.op = "update"
    /\ steps = 3
    /\ clock = RANDOM_LOW_MAX
    /\ faderButtonMode = "random"
    /\ faderButtonToggleState[2] = 1
    /\ faderValues[2] = UnitLevel
    /\ Phase(faderRandomStates[2]) = "High"
    /\ faderRandomStates[2].nextSwitchTime < clock + RANDOM_HIGH_MAX

\* After the pulse: update ran again 4000 ms later and channel 2 is back at
\* output 0.
C21_WitnessReturn ==
    /\ lastOp.op = "update"
    /\ lastOp.again
    /\ steps = 5
    /\ clock = 2 * RANDOM_LOW_MAX
    /\ faderButtonToggleState[2] = 1
    /\ faderValues[2] = 0
    /\ Phase(faderRandomStates[2]) = "Low"

\* C22: for every valid index, recomputeValue returns, in mute mode, 0 if
\* toggleState else previousLevel and leaves the channel Idle; in random
\* mode with toggleState, the channel's current phase value (0 in Low, 1 in
\* High) and leaves the channel active; in random mode without toggleState,
\* previousLevel and leaves the channel Idle.  The value returned is
\* determined by the mode, toggleState, previousLevel and the channel's state
\* before the call, whatever duration the call draws.
C22_RecomputeValueContract ==
    [][Called("recomputeValue") =>
        LET index == lastOp'.a[1]
            toggleState == lastOp'.a[2]
            previousLevel == lastOp'.a[3]
            mode == lastOp'.key
            returned == controller'.returned
        IN  index \in Faders =>
            LET old == controller.states[index]
                new == controller'.states[index]
            IN  /\ mode = "mute" =>
                    /\ returned = IF toggleState # 0 THEN 0 ELSE previousLevel
                    /\ Phase(new) = "Idle"
                /\ (mode = "random" /\ toggleState # 0) =>
                    /\ Phase(new) \in {"Low", "High"}
                    /\ returned = IF Phase(new) = "High" THEN UnitLevel ELSE 0
                    /\ returned = new.currentValue * UnitLevel
                    /\ returned = IF old.isActive
                                  THEN old.currentValue * UnitLevel ELSE 0
                /\ (mode = "random" /\ toggleState = 0) =>
                    /\ returned = previousLevel
                    /\ Phase(new) = "Idle"]_vars

\* recomputeValue(0, "random", 1, 64/127, 4000) was called on a channel that
\* process had moved to High: it returned 1, not the level.
C22_Witness ==
    /\ lastOp.op = "recomputeValue"
    /\ lastOp.a = <<0, 1, 64 * 100>>
    /\ lastOp.key = "random"
    /\ clock = TickLength
    /\ Phase(controller.states[0]) = "High"
    /\ controller.returned = UnitLevel

\* C23: immediately after a setFaderButtonMode call that changes the mode,
\* every one of the 9 channels holds the value prescribed for the new mode.
\* To mute: output 0 if toggled, else the previous level, and the channel is
\* Idle.  To random: a toggled channel is active in Low with output 0, an
\* untoggled channel is Idle with the previous level as output.
C23_ModeSwitchSyncsEveryChannel ==
    [][(Called("setFaderButtonMode") /\ faderButtonMode' # faderButtonMode) =>
        \A i \in Faders :
            LET toggled == faderButtonToggleState[i] # 0
                new == faderRandomStates'[i]
            IN  /\ faderButtonMode' = lastOp'.key
                /\ faderButtonToggleState'[i] = faderButtonToggleState[i]
                /\ faderValuesPrev'[i] = faderValuesPrev[i]
                /\ faderButtonMode' = "mute" =>
                    /\ faderValues'[i] = IF toggled THEN 0 ELSE faderValuesPrev[i]
                    /\ Phase(new) = "Idle"
                /\ (faderButtonMode' = "random" /\ toggled) =>
                    /\ Phase(new) = "Low"
                    /\ new.currentValue = 0
                    /\ faderValues'[i] = 0
                /\ (faderButtonMode' = "random" /\ ~toggled) =>
                    /\ Phase(new) = "Idle"
                    /\ faderValues'[i] = faderValuesPrev[i]]_vars

\* After a control change set the level of channel 0 to 64/127 and a press
\* toggled channel 2 on, the third call switched the mode to mute: channel 0
\* outputs its level, channel 2 outputs 0 and is Idle.
C23_Witness ==
    /\ lastOp.op = "setFaderButtonMode"
    /\ lastOp.key = "mute"
    /\ steps = 3
    /\ clock = 0
    /\ faderButtonMode = "mute"
    /\ faderButtonToggleState[0] = 0
    /\ 127 * faderValues[0] = 64 * UnitLevel
    /\ faderButtonToggleState[2] = 1
    /\ faderValues[2] = 0
    /\ Phase(faderRandomStates[2]) = "Idle"

\* Back to random at 4000 ms or later: the toggled channel 2 starts a fresh
\* Low phase with output 0.
C23_WitnessRandom ==
    /\ lastOp.op = "setFaderButtonMode"
    /\ lastOp.key = "random"
    /\ steps = 4
    /\ clock = TickLength
    /\ faderButtonMode = "random"
    /\ faderButtonToggleState[2] = 1
    /\ faderValues[2] = 0
    /\ Phase(faderRandomStates[2]) = "Low"
    /\ faderRandomStates[2].nextSwitchTime > clock

\* C24: every update call emits a complete feedback encoding of the state
\* it leaves: 81 messages, exactly one for each of the 8 scene-select
\* addresses (127 at the address of the current scene, 0 at the other
\* seven), exactly one for each of the 64 grid addresses and exactly one for
\* each of the 9 fader-button addresses (127 iff the channel's toggle state
\* is on), also when nothing changed since the previous update.
C24_UpdateEmitsCompleteFeedback ==
    lastOp.op = "update" =>
        /\ Len(ledOut) = 8 + 64 + 9
        /\ \A i \in Scenes :
                /\ Cardinality(LedPositions(ledOut, 112 + i)) = 1
                /\ Led(ledOut, 112 + i) = IF i = currentSceneIndex THEN 127 ELSE 0
        /\ \A address \in 0 .. 63 :
                Cardinality(LedPositions(ledOut, address)) = 1
        /\ \A i \in Faders :
                /\ Cardinality(LedPositions(ledOut, FaderButtonAddress(i))) = 1
                /\ Led(ledOut, FaderButtonAddress(i)) =
                        IF faderButtonToggleState[i] # 0 THEN 127 ELSE 0

\* update ran twice in a row on scene 7 with fader button 0 toggled: the
\* second call emitted all 81 messages again.
C24_Witness ==
    /\ lastOp.op = "update"
    /\ lastOp.again
    /\ currentSceneIndex = 7
    /\ Len(ledOut) = 81
    /\ Led(ledOut, 119) = 127
    /\ Led(ledOut, 112) = 0

\* C25: after update, for every column of the current scene (no cell is
\* inert), the colour emitted for row r is: at r = 7 the random-active colour
\* 45 if isRandom, else the selectable-default colour 3; at r < 7 off if
\* r >= maxOptions, the scene's accent colour if r is the effective value,
\* and the selectable-default colour otherwise; at most one of rows 0..6 of a
\* column carries the accent colour.
C25_CellColourByRow ==
    lastOp.op = "update" =>
        \A c \in Columns :
            LET cell == Cell(currentSceneIndex, c)
                effective == IF cell.isRandom THEN cell.randomValue
                                              ELSE cell.selectedRow
                accent == SIDE_ACTIVE_COLORS[currentSceneIndex + 1]
                colour(r) == Led(ledOut, PadAddress(c, r))
            IN  /\ cell.maxOptions > 0
                /\ colour(7) = IF cell.isRandom THEN 45 ELSE 3
                /\ \A r \in 0 .. 6 :
                        colour(r) = IF r >= cell.maxOptions THEN 0
                                    ELSE IF r = effective THEN accent
                                    ELSE 3
                /\ Cardinality({r \in 0 .. 6 : colour(r) = accent}) <= 1

\* On scene 0, column 0 was resized to 5 rows and its row 2 pressed: after
\* update row 2 carries the accent colour 5, row 0 the default 3, rows 5 and
\* 6 are off and row 7 carries 3.
C25_Witness ==
    /\ lastOp.op = "update"
    /\ currentSceneIndex = 0
    /\ Cell(0, 0).maxOptions = 5
    /\ Cell(0, 0).selectedRow = 2
    /\ ~Cell(0, 0).isRandom
    /\ Led(ledOut, PadAddress(0, 2)) = 5
    /\ Led(ledOut, PadAddress(0, 0)) = 3
    /\ Led(ledOut, PadAddress(0, 5)) = 0
    /\ Led(ledOut, PadAddress(0, 6)) = 0
    /\ Led(ledOut, PadAddress(0, 7)) = 3

\* The accent colour of column c in the feedback last emitted: the colour of
\* the row equal to the cell's effective value.
AccentShown(c) ==
    Led(ledOut, PadAddress(c, EffectiveValue(Cell(currentSceneIndex, c))))

\* The accent colour that sendGridPadLeds gives column c of scene s in the
\* present grid state, were s the current scene.
AccentOn(s, c) ==
    Led(GridPadLeds([Cur EXCEPT !.currentSceneIndex = s]),
        PadAddress(c, EffectiveValue(Cell(s, c))))

\* The effective value of column c of scene s is a row below the toggle
\* row, the rows that can show an accent colour.
Highlightable(s, c) == EffectiveValue(Cell(s, c)) \in 0 .. 6

\* C26 as stated: after update there is one scene index for which the accent
\* colour is keyed by the column, so that two columns show different accent
\* colours on that scene, while for every other scene index it is the entry
\* of the scene colour table.
C26_AccentByColumnOnOneScene ==
    lastOp.op = "update" =>
        \E exception \in Scenes :
            /\ \E c1, c2 \in Columns :
                    /\ Highlightable(exception, c1)
                    /\ Highlightable(exception, c2)
                    /\ AccentOn(exception, c1) # AccentOn(exception, c2)
            /\ \A s \in Scenes \ {exception} : \A c \in Columns :
                    Highlightable(s, c) =>
                        AccentOn(s, c) = SIDE_ACTIVE_COLORS[s + 1]

\* C26, amended: on every scene the accent colour of every column whose
\* effective value is a row below the toggle row is the entry of the scene
\* colour table at the current scene index, so all columns of a scene show
\* the same accent colour.
C26_AccentKeyedByScene ==
    lastOp.op = "update" =>
        \A c \in Columns :
            Highlightable(currentSceneIndex, c) =>
                /\ AccentShown(c) = SIDE_ACTIVE_COLORS[currentSceneIndex + 1]
                /\ \A d \in Columns :
                        Highlightable(currentSceneIndex, d) =>
                            AccentShown(d) = AccentShown(c)

\* After update on scene 0, columns 0 and 1 show the accent colour 5 of
\* scene 0 at different rows.
C26_Witness ==
    /\ lastOp.op = "update"
    /\ currentSceneIndex = 0
    /\ Cell(0, 0).selectedRow = 2
    /\ Cell(0, 1).selectedRow = 5
    /\ Led(ledOut, PadAddress(0, 2)) = 5
    /\ Led(ledOut, PadAddress(1, 5)) = 5

\* C27: when the last configuration of the current scene requested a
\* maximum of 0 for a column, update emits the off colour 0 at all 8 grid
\* addresses of that column, the row-7 address included.
C27_ZeroMaxColumnAllOff ==
    [][(/\ Called("update")
        /\ lastOp.op = "setMaxOptionsForScene"
        /\ ~BadMaxOptionsArgs(lastOp)
        /\ SceneArg(lastOp) = currentSceneIndex) =>
            \A c \in Columns :
                OptionsArg(lastOp)[c + 1] = 0 =>
                    \A r \in 0 .. 7 : Led(ledOut', PadAddress(c, r)) = 0]_vars

\* C28: every message emitted by update carries the output note-on status
\* 0x96, which is not the inbound note-on status 0x90.
C28_FeedbackCarriesOutputStatus ==
    \A k \in DOMAIN ledOut : ledOut[k][1] = 150 /\ ledOut[k][1] # 144

\* C29: once construction has completed, the keyboard fallback is active
\* whenever the last report of the transport was "unavailable", whether the
\* report came synchronously inside the base-class constructor (Web MIDI
\* unsupported) or later from initialize(), and it is inactive whenever the
\* last report was "available".
C29_FallbackFollowsAvailability ==
    midi.stage = "constructed" =>
        /\ midi.reported = "unavailable" => keyboardFallbackActive
        /\ midi.reported = "available" => ~keyboardFallbackActive

\* The part of C29 that holds: where Web MIDI is supported, so that every
\* report arrives after construction, the fallback is active exactly when
\* the last report was "unavailable".
C29_AsynchronousReports ==
    (midi.stage = "constructed" /\ midi.supported) =>
        (keyboardFallbackActive <=> midi.reported = "unavailable")

\* The class under which handleMIDIMessage of the manager handles a message
\* at the address: the first handler that claims it.
Classified(status, address) ==
    IF IsShiftToggle(status, address) THEN "Shift"
    ELSE IF IsFaderButton(status, address) THEN "FaderButton"
    ELSE IF IsSideButton(status, address) THEN "SceneSelect"
    ELSE IF IsGridPad(status, address) THEN "GridCell"
    ELSE IF IsFaderControlChange(status, address) THEN "FaderLevel"
    ELSE "None"

\* Grid encode and decode are mutual inverses over columns and rows 0..7 and
\* addresses 0..63.
GridCodecInverse ==
    /\ \A c \in 0 .. 7, r \in 0 .. 7 :
            /\ GridNote(c, r) \in 0 .. 63
            /\ GridColumn(GridNote(c, r)) = c
            /\ GridRow(GridNote(c, r)) = r
            /\ GetGridCoordinate(GridNote(c, r)) = [column |-> c, row |-> r]
    /\ \A n \in 0 .. 63 : GridNote(GridColumn(n), GridRow(n)) = n

\* C30: the virtual surface uses the addressing of the codec in both
\* directions.  Grid encode and decode are mutual inverses; and whenever the
\* active virtual input handles an event of a pad, side button, fader button
\* or slider, the address of the message it emits is the address under which
\* the surface registered that element, and the manager's decoder classifies
\* the message as that kind of element and extracts the element's own column
\* and row, or its own index.
C30_VirtualSurfaceSharesAddressing ==
    /\ []GridCodecInverse
    /\ [][virtual.active =>
            LET message == virtual'.emitted
                class == Classified(message[1], message[2])
                own == ParseDatasetIndex(lastOp'.key)
            IN  /\ Called("triggerPad") =>
                    /\ message = <<144, lastOp'.a[3], 127>>
                    /\ class = "GridCell"
                    /\ GridColumn(message[2]) = lastOp'.a[1]
                    /\ GridRow(message[2]) = lastOp'.a[2]
                /\ Called("triggerSideButton") =>
                    /\ message = <<144, lastOp'.a[1], 127>>
                    /\ class = "SceneSelect"
                    /\ message[2] - 112 = own
                /\ Called("triggerFaderButton") =>
                    /\ message = <<144, lastOp'.a[1], 127>>
                    /\ class = "FaderButton"
                    /\ FaderButtonIndex(message[2]) = own
                /\ Called("handleFaderInput") =>
                    /\ message = <<176, lastOp'.a[1], lastOp'.a[2]>>
                    /\ class = "FaderLevel"
                    /\ message[2] - 48 = own]_vars

\* The part of C30 that holds: the emitted address is the registered one for
\* every element; the decoders of APCMiniMK2Base (getGridCoordinate,
\* getFaderButtonIndex) give every element's own column and row or index;
\* and the manager's decoder does so for every element but the master fader
\* button.
C30_AddressesAgree ==
    /\ []GridCodecInverse
    /\ [][virtual.active =>
            LET message == virtual'.emitted
                class == Classified(message[1], message[2])
                own == ParseDatasetIndex(lastOp'.key)
            IN  /\ Called("triggerPad") =>
                    /\ message = <<144, lastOp'.a[3], 127>>
                    /\ class = "GridCell"
                    /\ GetGridCoordinate(message[2]) =
                            [column |-> lastOp'.a[1], row |-> lastOp'.a[2]]
                    /\ GridColumn(message[2]) = lastOp'.a[1]
                    /\ GridRow(message[2]) = lastOp'.a[2]
                /\ Called("triggerSideButton") =>
                    /\ message = <<144, lastOp'.a[1], 127>>
                    /\ class = "SceneSelect"
                    /\ message[2] - 112 = own
                /\ Called("triggerFaderButton") =>
                    /\ message = <<144, lastOp'.a[1], 127>>
                    /\ GetFaderButtonIndex(message[2]) = own
                    /\ own # 8 => (/\ class = "FaderButton"
                                   /\ FaderButtonIndex(message[2]) = own)
                /\ Called("handleFaderInput") =>
                    /\ message = <<176, lastOp'.a[1], lastOp'.a[2]>>
                    /\ class = "FaderLevel"
                    /\ message[2] - 48 = own]_vars

\* The active virtual input handled a click of the master fader button,
\* registered at address 122, and emitted a note-on at 122.
C30_WitnessMaster ==
    /\ virtual.active
    /\ lastOp.op = "triggerFaderButton"
    /\ lastOp.key = "8"
    /\ virtual.emitted = <<144, 122, 127>>

\* C31: no call of the public interface raises: getParamValues, selectScene
\* and setMaxOptionsForScene with scene indices inside and outside 0..7,
\* every inbound 3-byte message, and the random fader controller with fader
\* indices inside and outside its channels all return.
C31_NoCallRaises == ~lastOp.raised

\* What holds of C31: selectScene, setMaxOptionsForScene, handleMIDIMessage,
\* recomputeValue and deactivate return for every argument; the calls that
\* raise are the reads of a scene or column outside 0..7 and activate at a
\* fader index outside the controller's channels, and they change nothing.
C31_RaisesAreOutOfRangeReads ==
    /\ [](lastOp.raised =>
            \/ /\ lastOp.op = "getParamValues"
               /\ lastOp.a[1] \notin 0 .. 7
            \/ /\ lastOp.op = "getParamValue"
               /\ (lastOp.a[1] \notin 0 .. 7 \/ lastOp.a[2] \notin 0 .. 7)
            \/ /\ lastOp.op = "activate"
               /\ lastOp.a[1] \notin 0 .. 8)
    /\ [][lastOp'.raised => UNCHANGED <<progVars, sideVars>>]_vars

\* The step just taken is a scene-select event: a selectScene call, a press
\* (intensity > 0) of a side button 112..119, or a scene key of the active
\* keyboard fallback (a..k, F1..F8, [ or ]).
SceneSelectEvent ==
    \/ Called("selectScene")
    \/ /\ Called("handleMIDIMessage")
       /\ lastOp'.a[1] = 144
       /\ lastOp'.a[2] \in 112 .. 119
       /\ lastOp'.a[3] > 0
    \/ /\ Called("handleFallbackKeyDown")
       /\ keyboardFallbackActive
       /\ lastOp'.key \in {"a", "s", "d", "f", "g", "h", "j", "k",
                           "A", "S", "D", "F", "G", "H", "J", "K",
                           "F1", "F2", "F3", "F4", "F5", "F6", "F7", "F8",
                           "[", "]"}

\* C32: currentScene is always in 0..7; selectScene(index) with index outside
\* [0,8) changes nothing and with a valid index sets currentScene to it; the
\* previous and next keys of the fallback wrap modulo 8; and no step other
\* than a scene-select event changes currentScene.
C32_CurrentSceneInRange ==
    /\ [](currentSceneIndex \in 0 .. 7)
    /\ [][/\ (Called("selectScene") /\ lastOp'.a[1] \notin 0 .. 7) =>
                UNCHANGED progVars
          /\ (Called("selectScene") /\ lastOp'.a[1] \in 0 .. 7) =>
                currentSceneIndex' = lastOp'.a[1]
          /\ (Called("handleFallbackKeyDown") /\ keyboardFallbackActive
                    /\ lastOp'.key = "[") =>
                currentSceneIndex' = (currentSceneIndex + 7) % 8
          /\ (Called("handleFallbackKeyDown") /\ keyboardFallbackActive
                    /\ lastOp'.key = "]") =>
                currentSceneIndex' = (currentSceneIndex + 1) % 8
          /\ currentSceneIndex' # currentSceneIndex => SceneSelectEvent]_vars

\* The previous-scene key was typed on scene 0 with the fallback active and
\* wrapped the selection to scene 7.
C32_Witness ==
    /\ lastOp.op = "handleFallbackKeyDown"
    /\ lastOp.key = "["
    /\ keyboardFallbackActive
    /\ currentSceneIndex = 7
    /\ sideButtonToggleState[7] = 1

\* selectScene(8) was called after scene 1 had been selected by its side
\* button, and scene 1 is still the current one.
C32_WitnessRejected ==
    /\ lastOp.op = "selectScene"
    /\ lastOp.a = <<8>>
    /\ currentSceneIndex = 1

\* The fields read by the feedback pass and by getParamValues, as they are
\* after the step.
FieldsAfter ==
    [gridRadioState |-> gridRadioState',
     currentSceneIndex |-> currentSceneIndex',
     faderButtonToggleState |-> faderButtonToggleState',
     ledOut |-> ledOut']

\* C33 as stated: after update(t) every random cell of the current scene has
\* a highlighted row (a row showing the scene's accent colour), and it is
\* the value getParamValues returns right after the call.
C33_RandomCellsHighlighted ==
    [][Called("update") =>
        LET s == currentSceneIndex'
            values == GetParamValues(FieldsAfter, s)
        IN  \A c \in Columns :
                CellAfter(s, c).isRandom =>
                    /\ values[c] \in 0 .. 7
                    /\ Led(ledOut', PadAddress(c, values[c]))
                            = SIDE_ACTIVE_COLORS[s + 1]]_vars

\* C33: update(t) computes its feedback from the fields as they are after
\* the random refresh and the random-fader step: every random cell holds
\* the value computed for t, and in every column of the current scene a row
\* below the toggle row shows the accent colour exactly when it is the value
\* getParamValues returns right after the call (no row does when that value
\* is 7, the toggle row).
C33_FeedbackShowsRefreshedValues ==
    [][Called("update") =>
        LET s == currentSceneIndex'
            values == GetParamValues(FieldsAfter, s)
        IN  /\ ledOut' = MidiOutputSendControls(FieldsAfter)
            /\ \A c \in Columns :
                /\ CellAfter(s, c).isRandom =>
                        values[c] = ExpectedRandom(lastOp'.a[1] + c,
                                                   CellAfter(s, c).maxOptions)
                /\ \A r \in 0 .. 6 :
                        (Led(ledOut', PadAddress(c, r)) = SIDE_ACTIVE_COLORS[s + 1])
                            <=> (r = values[c])]_vars

\* update(10) ran after update(0) on the random cell of column 0: the value
\* for tempo index 0 was 5, the value for 10 is 2, and row 2 is the row
\* that shows the accent colour.
C33_Witness ==
    /\ lastOp.op = "update"
    /\ lastOp.a = <<10>>
    /\ steps = 3
    /\ currentSceneIndex = 0
    /\ Cell(0, 0).isRandom
    /\ Cell(0, 0).randomValue = 2
    /\ Led(ledOut, PadAddress(0, 2)) = 5
    /\ Led(ledOut, PadAddress(0, 5)) = 3

\* update(10) ran on the random cell of column 2 with maxOptions = 8: its
\* value is 7, the toggle row shows the random-active colour and no row of
\* the column shows the accent colour.
C33_WitnessToggleRow ==
    /\ lastOp.op = "update"
    /\ currentSceneIndex = 0
    /\ Cell(0, 2).isRandom
    /\ Cell(0, 2).randomValue = 7
    /\ Led(ledOut, PadAddress(2, 7)) = 45
    /\ \A r \in 0 .. 6 : Led(ledOut, PadAddress(2, r)) = 3

\* C34: row 7 is never a selected value: after any sequence of grid presses,
\* keyboard-fallback grid keys, setMaxOptionsForScene, resetAllMaxOptions and
\* update calls, no cell has selectedRow = 7.
C34_RowSevenNeverSelected ==
    \A s \in Scenes, c \in Columns : Cell(s, c).selectedRow # 7

\* What holds of C34: the steps that are not keys of the keyboard fallback
\* (grid presses, setMaxOptionsForScene, resetAllMaxOptions, update and the
\* others) never make a selectedRow 7.
C34_OnlyFallbackKeysSelectRowSeven ==
    [][(\E s \in Scenes, c \in Columns :
            CellAfter(s, c).selectedRow = 7 /\ Cell(s, c).selectedRow # 7)
        => Called("handleFallbackKeyDown")]_vars

\* C35: a grid press (a note-on with intensity > 0 at a grid address) changes
\* at most the cell of the current scene in the pressed column: the other
\* 63 cells, the current scene, the fader mode and every fader channel's
\* toggle state, previous level and output are unchanged.
C35_GridPressChangesOneCell ==
    [][\A c \in Columns, r \in 0 .. 7 :
        Pressed(c, r) =>
            /\ \A s \in Scenes, d \in Columns :
                    (s # currentSceneIndex \/ d # c) => CellAfter(s, d) = Cell(s, d)
            /\ UNCHANGED <<currentSceneIndex, sideButtonToggleState,
                           faderButtonMode, faderButtonToggleState,
                           faderValuesPrev, faderValues>>]_vars

\* Column 0, row 2 was pressed on scene 1 after row 5 had been pressed on
\* scene 0: the cell of scene 1 holds 2 and the cell of scene 0 still 5.
C35_Witness ==
    /\ LastReceived(144, 40, 127)
    /\ currentSceneIndex = 1
    /\ Cell(1, 0).selectedRow = 2
    /\ Cell(0, 0).selectedRow = 5

C37_ActiveIffRandomAndToggled ==
    \A i \in Faders :
        faderRandomStates[i].isActive
            <=> (faderButtonMode = "random" /\ faderButtonToggleState[i] # 0)

\* A fader key of the keyboard fallback was typed for channel 0 in random
\* mode while channel 2 is toggled: channel 0 is untoggled and idle, and
\* channel 2 is active.
C37_Witness ==
    /\ lastOp.op = "handleFallbackKeyDown"
    /\ lastOp.key = "q"
    /\ faderButtonMode = "random"
    /\ faderButtonToggleState[0] = 0
    /\ ~faderRandomStates[0].isActive
    /\ faderButtonToggleState[2] = 1
    /\ faderRandomStates[2].isActive

\* The mode was switched to mute with channel 0 toggled: the channel is idle.
C37_WitnessMuted ==
    /\ lastOp.op = "setFaderButtonMode"
    /\ faderButtonMode = "mute"
    /\ faderButtonToggleState[0] = 1
    /\ ~faderRandomStates[0].isActive

\* A per-channel random state is well-formed: idle with currentValue 0, the
\* low phase and no scheduled time, or active with currentValue 1 exactly in
\* the high phase.
WellFormed(state) ==
    /\ ~state.isActive =>
            /\ state.currentValue = 0
            /\ ~state.isHighPhase
            /\ state.nextSwitchTime = 0
    /\ state.isActive =>
            /\ state.currentValue \in {0, 1}
            /\ state.currentValue = 1 <=> state.isHighPhase

\* C38: in every reachable state every channel's random state is
\* well-formed, in the manager and in the RandomFaderController.
C38_RandomStateWellFormed ==
    \A i \in Faders :
        /\ WellFormed(faderRandomStates[i])
        /\ WellFormed(controller.states[i])

\* Channel 0 was untoggled by its button while it was in the high phase and
\* is idle again with nothing scheduled; channel 2 is still active in the
\* high phase with currentValue 1.
C38_Witness ==
    /\ lastOp.op = "button"
    /\ lastOp.a[1] = 0
    /\ clock > 0
    /\ faderButtonToggleState[0] = 0
    /\ controller.states[0] = InitialRandomState
    /\ faderRandomStates[0] = InitialRandomState
    /\ faderRandomStates[2].isActive
    /\ faderRandomStates[2].isHighPhase
    /\ faderRandomStates[2].currentValue = 1
    /\ controller.states[2].nextSwitchTime > clock

C40_FaderArraysKeepNineEntries ==
    /\ DOMAIN faderButtonToggleState = 0 .. 8
    /\ DOMAIN faderValuesPrev = 0 .. 8
    /\ DOMAIN faderValues = 0 .. 8
    /\ DOMAIN faderRandomStates = 0 .. 8
    /\ \A i \in 0 .. 8 : faderButtonToggleState[i] \in {0, 1}

\* The note-on at address 122, for which handleFaderButton would compute the
\* index 22, arrived after the button of channel 7 had been pressed: it
\* toggled the random scene mode and wrote no fader state.
C40_Witness ==
    /\ LastReceived(144, 122, 127)
    /\ randomSceneMode
    /\ faderButtonToggleState[7] = 1
    /\ faderButtonToggleState[8] = 0
    /\ Cardinality(DOMAIN faderButtonToggleState) = 9

====
